---- MODULE Spec2Model ----
(***************************************************************************)
(* The page-transition manager of static/scripts/broadcastManager.js       *)
(* (class TransitionManager), run by the browser's event loop.             *)
(*                                                                         *)
(* One step of the model is one task of the event loop, run to completion  *)
(* together with the microtasks it queues: a host call (transitionTo,      *)
(* releaseInitialHold), a page event handler, a timer callback, or one     *)
(* rendering frame (the animation events of the frame, then the            *)
(* requestAnimationFrame callbacks).  The handlers are operators on a      *)
(* record s holding the manager's fields, the overlay's inline style, the  *)
(* animations on the overlay, sessionStorage and the pending callbacks.    *)
(***************************************************************************)
EXTENDS Integers, Sequences, FiniteSets, TLC

\* ---------------------------------------------------------------- bounds
\* The external events of one run: transitionTo calls, popstate events,
\* returns of the tab to the foreground, and leaves of the page for the
\* back/forward cache.  Frames, timers and the load's pageshow are not counted.
MaxExternal == 3

\* The link clicks of one run, where the clicks are what is looked at.
MaxClicks == 2

VARIABLES
    transitionEffect,   \* this.transitionEffect: "slide" | "fade"
    bufferTime,         \* this.bufferTime: 0, or 1 for any positive delay
    reduceMotion,       \* respectReducedMotion && the media query matches
    _isAnimating,       \* this._isAnimating
    _initialHeld,       \* this._initialHeld
    _initialHoldTimer,  \* this._initialHoldTimer is armed
    style,              \* this.overlay.style (inline style)
    anims,              \* this.overlay.getAnimations(), in creation order
    marker,             \* sessionStorage[this.sessionKey] === '1'
    timers,             \* pending _wait(bufferTime) timers, FIFO
    raf,                \* a requestAnimationFrame(_parkAtAAndHide) is pending
    cancelEvents,       \* 'cancel' events queued for the next frame
    microtask,          \* the constructor's queueMicrotask is pending
    page,               \* "loading" | "shown" | "cached"
    navLog,             \* the window.location.assign calls of this visit
    hist,               \* observations of the run (see Hist0)
    nCalls,             \* transitionTo calls made so far
    nEvents,            \* popstate, foreground and leave events so far
    ctor,               \* the `new TransitionManager(options)` call
    click,              \* the last handleLinkClick(e, anchor) call
    bm,                 \* the BroadcastManager (see BmIdle)
    cm,                 \* an applyComponentsGroup call (see CmIdle)
    cl,                 \* the page's contact links (see ClIdle)
    sk,                 \* the service key and the last fetch (see SkIdle)
    mt                  \* ComponentManager.mount calls and their DOM (see MtIdle)

\* the TransitionManager and its page
tmVars == <<transitionEffect, bufferTime, reduceMotion, _isAnimating,
            _initialHeld, _initialHoldTimer, style, anims, marker, timers, raf,
            cancelEvents, microtask, page, navLog, hist,
            nCalls, nEvents>>

\* what the steps of the TransitionManager leave alone
others == <<ctor, click, bm, cm, cl, sk, mt>>

vars == <<tmVars, others>>

cfgVars == <<transitionEffect, bufferTime, reduceMotion>>

\* ------------------------------------------------------- the overlay style
A_transform == "translateX(-100%)"
B_transform == "translateX(0%)"
C_transform == "translateX(100%)"

\* The element's inline style before the manager touches it.
BlankStyle ==
    [visibility |-> "", transform |-> "", opacity |-> "",
     width |-> "", height |-> ""]

\* The record the handlers work on.
Cur ==
    [effect |-> transitionEffect, buffer |-> bufferTime, reduce |-> reduceMotion,
     isAnimating |-> _isAnimating, initialHeld |-> _initialHeld,
     initialHoldTimer |-> _initialHoldTimer, style |-> style, anims |-> anims,
     marker |-> marker, timers |-> timers, raf |-> raf,
     cancelEvents |-> cancelEvents, navLog |-> navLog, hist |-> hist,
     calls |-> nCalls]

\* The handler's result becomes the next state.
Commit(result) ==
    \E s \in {result} :
        /\ _isAnimating' = s.isAnimating
        /\ _initialHeld' = s.initialHeld
        /\ _initialHoldTimer' = s.initialHoldTimer
        /\ style' = s.style
        /\ anims' = s.anims
        /\ marker' = s.marker
        /\ timers' = s.timers
        /\ raf' = s.raf
        /\ cancelEvents' = s.cancelEvents
        /\ navLog' = s.navLog
        /\ hist' = s.hist
        /\ nCalls' = s.calls
        /\ UNCHANGED <<cfgVars, others>>

\* What a promise's awaiter does when it settles (by: what cancelled the
\* animation, where that is a page-lifecycle event).
NoCont == [k |-> "none", call |-> 0, rm |-> FALSE, by |-> ""]
CoverCont(call) == [k |-> "cover", call |-> call, rm |-> FALSE, by |-> ""]
OutCont(rm) == [k |-> "out", call |-> 0, rm |-> rm, by |-> ""]

_shouldReduceMotion(s) == s.reduce

\* ----- Named visual states -----
\* a park that writes the slide position whatever the effect
_parkAtAAndHide_slideOnly(s) ==
    [s EXCEPT !.style.visibility = "hidden", !.style.transform = A_transform]

_parkAtAAndHide(s) ==
    IF s.effect = "slide"
    THEN [s EXCEPT !.style.visibility = "hidden", !.style.transform = A_transform]
    ELSE [s EXCEPT !.style.opacity = "0", !.style.visibility = "hidden"]

_showAtB(s) ==
    IF s.effect = "slide"
    THEN [s EXCEPT !.style.visibility = "visible", !.style.transform = B_transform]
    ELSE [s EXCEPT !.style.visibility = "visible", !.style.opacity = "1"]

_hideAtC(s) ==
    IF s.effect = "slide"
    THEN [s EXCEPT !.style.transform = C_transform, !.style.visibility = "hidden"]
    ELSE [s EXCEPT !.style.opacity = "0", !.style.visibility = "hidden"]

\* Animation.cancel() on every animation of the overlay: the animation stops
\* applying, and a running one gets a 'cancel' event on the next frame (the
\* listener of a finished one rejects a promise that is already resolved).
Running(as) == SelectSeq(as, LAMBDA a : a.phase # "finished")

RECURSIVE ContsOf(_)
ContsOf(as) ==
    IF as = <<>> THEN <<>> ELSE <<Head(as).cont>> \o ContsOf(Tail(as))

_stopAllAnimations(s) ==
    [s EXCEPT !.anims = <<>>,
              !.cancelEvents = @ \o ContsOf(Running(s.anims))]

_forceAtB(s) == _showAtB(_stopAllAnimations(s))

\* element.animate(keyframes, {fill: 'forwards'}) wrapped in a promise.
\* A finished animation under a later one is never rendered again (the
\* animations of the overlay are only ever cancelled all at once), so it is
\* not kept.
_animate(s, kind, cont) ==
    [s EXCEPT !.anims = Append(Running(@),
                               [kind |-> kind, phase |-> "new", cont |-> cont])]

_requestPark(s) == [s EXCEPT !.raf = TRUE]

\* ------------------------------------------------- what the user is shown
\* The overlay's rendered position: the last animation still applying (a
\* running one is between its keyframes, a finished one fills forwards at its
\* last keyframe) overrides the inline style.
InlinePos(s) ==
    IF s.effect = "slide"
    THEN CASE s.style.transform = A_transform -> "A"
           [] s.style.transform = C_transform -> "C"
           [] OTHER -> "B"
    ELSE IF s.style.opacity = "0" THEN "A" ELSE "B"

RenderedPos(s) ==
    IF s.anims = <<>> THEN InlinePos(s)
    ELSE LET a == s.anims[Len(s.anims)]
         IN  IF a.phase # "finished" THEN "mid"
             ELSE IF a.kind = "in" THEN "B" ELSE "C"

Visible(s) == s.style.visibility # "hidden"

\* The style _parkAtAAndHide writes.
Parked(s) ==
    /\ s.style.visibility = "hidden"
    /\ IF s.effect = "slide" THEN s.style.transform = A_transform
                              ELSE s.style.opacity = "0"

\* The user sees the overlay cover the page.
Covering(s) == RenderedPos(s) = "B" /\ Visible(s)

\* ------------------------------------------------------------ transitionTo
\* sessionStorage.setItem(this.sessionKey, '1')
setItem(s) == [s EXCEPT !.marker = TRUE]

\* window.location.assign(url): the url of call n is url n.  The entry
\* records the instant: how many calls were made so far, the marker, whether
\* the overlay covers the page, and whether the call has reached B.
assign(s, call, reached) ==
    [s EXCEPT !.navLog = Append(@, [call |-> call, calls |-> s.calls,
                                    marker |-> s.marker,
                                    covering |-> Covering(s),
                                    reached |-> reached,
                                    reduced |-> s.reduce])]

\* a transitionTo that navigates before it sets the marker
markAndGo_assignFirst(s, call, reached) == setItem(assign(s, call, reached))

\* transitionTo, lines 166-171: mark for B->C on the next page, and go.
markAndGo(s, call, reached) == assign(setItem(s), call, reached)

\* transitionTo, lines 163-171: the optional buffer, then mark and go.
\* reached: the call's cover animation finished, or the call forced B.
afterCover(s, call, reached) ==
    IF s.buffer > 0
    THEN [s EXCEPT !.timers = Append(@, [k |-> "cover", call |-> call,
                                         rm |-> FALSE, reached |-> reached])]
    ELSE markAndGo(s, call, reached)

_animateInToCover(s, call) ==
    LET s1 == [s EXCEPT !.style.visibility = "visible"]
        s2 == IF s.effect = "slide"
              THEN [s1 EXCEPT !.style.transform = A_transform]
              ELSE [s1 EXCEPT !.style.opacity = "0"]
    IN  _animate(s2, "in", CoverCont(call))

\* a transitionTo that looks at _isAnimating before the motion preference
transitionTo_animatingFirst(s, call) ==
    LET s0 == [s EXCEPT !.calls = call]
    IN  IF s0.isAnimating
        THEN afterCover([_forceAtB(_stopAllAnimations(s0))
                            EXCEPT !.hist.forced = TRUE], call, TRUE)
        ELSE IF _shouldReduceMotion(s0)
        THEN assign(s0, call, FALSE)
        ELSE _animateInToCover([s0 EXCEPT !.isAnimating = TRUE], call)

transitionTo(s, call) ==
    LET s0 == [s EXCEPT !.calls = call]
    IN  IF _shouldReduceMotion(s0)
        THEN assign(s0, call, FALSE)
        ELSE IF s0.isAnimating
        THEN afterCover([_forceAtB(_stopAllAnimations(s0))
                            EXCEPT !.hist.forced = TRUE], call, TRUE)
        ELSE _animateInToCover([s0 EXCEPT !.isAnimating = TRUE], call)

\* a transitionTo with try/finally and no catch: the rejection of a
\* cancelled cover animation leaves the function
coverSettled_noCatch(s, cont, canceled) ==
    IF canceled
    THEN [s EXCEPT !.isAnimating = FALSE, !.hist.unhandled = TRUE]
    ELSE afterCover([s EXCEPT !.isAnimating = FALSE], cont.call, TRUE)

\* transitionTo resumed after `await this._animateInToCover()`.
coverSettled(s, cont, canceled) ==
    LET s1 == IF canceled THEN _forceAtB(s) ELSE s
    IN  afterCover([s1 EXCEPT !.isAnimating = FALSE], cont.call, TRUE)

\* ----------------------------------------------------- _animateOutThenHide
\* lines 357-370: the B->C animation.  rm: the caller is the pageshow
\* handler, which removes the marker once the promise settles.
startOut(s, rm) ==
    _animate(s, "out", OutCont(rm))

\* the promise of _animateOutThenHide settles: .finally(removeItem)
outDone(s, rm) == IF rm THEN [s EXCEPT !.marker = FALSE] ELSE s

\* an _animateOutThenHide that does not ask for the motion preference
_animateOutThenHide_alwaysAnimates(s, rm) ==
    LET s1 == _showAtB(_stopAllAnimations(s))
    IN  IF s.buffer > 0
        THEN [s1 EXCEPT !.timers = Append(@, [k |-> "out", call |-> 0,
                                              rm |-> rm, reached |-> FALSE])]
        ELSE startOut(s1, rm)

_animateOutThenHide(s, rm) ==
    IF _shouldReduceMotion(s)
    THEN outDone(_requestPark(_hideAtC(s)), rm)
    ELSE LET s1 == _showAtB(_stopAllAnimations(s))
         IN  IF s.buffer > 0
             THEN [s1 EXCEPT !.timers = Append(@, [k |-> "out", call |-> 0,
                                                   rm |-> rm, reached |-> FALSE])]
             ELSE startOut(s1, rm)

\* a finally block that hides at C and never parks at A
outSettled_noPark(s, cont) == outDone(_hideAtC(s), cont.rm)

\* lines 371-376: catch (ignored) and finally, whether finished or canceled.
outSettled(s, cont) == outDone(_requestPark(_hideAtC(s)), cont.rm)

\* a release that does not look at the latch
releaseInitialHold_noLatch(s) ==
    _animateOutThenHide([s EXCEPT !.initialHeld = FALSE,
                                  !.initialHoldTimer = FALSE,
                                  !.hist.gateOuts = @ + 1], FALSE)

\* lines 175-183
releaseInitialHold(s) ==
    IF ~s.initialHeld THEN s
    ELSE _animateOutThenHide([s EXCEPT !.initialHeld = FALSE,
                                       !.initialHoldTimer = FALSE,
                                       !.hist.gateOuts = @ + 1], FALSE)

\* ------------------------------------------------------ lifecycle handlers
\* pagehide or pageshow cancels the animations of the overlay: the 'cancel'
\* events it queues are those of a page-lifecycle event
lifecycleStop(s) ==
    LET s1 == _stopAllAnimations(s)
        queued == s1.cancelEvents
    IN  [s1 EXCEPT !.cancelEvents =
            [i \in 1..Len(queued) |->
                IF i > Len(s.cancelEvents)
                THEN [queued[i] EXCEPT !.by = "lifecycle"]
                ELSE queued[i]]]

pageshow(s, persisted) ==
    LET pending == s.marker
        s1 == lifecycleStop(s)
    IN  IF persisted \/ pending
        THEN _animateOutThenHide(_showAtB(s1), TRUE)
        ELSE IF ~s.initialHeld THEN _parkAtAAndHide(s1) ELSE s1

pagehide(s) == lifecycleStop(s)

popstate(s) == _requestPark(s)

\* a visibilitychange handler that asks for the park and does not hide
visibilitychange_parkOnly(s, state) ==
    IF state = "visible" /\ ~s.initialHeld
    THEN [_requestPark(s) EXCEPT !.hist.regained = @ \/ Running(s.anims) # <<>>]
    ELSE s

visibilitychange(s, state) ==
    IF state = "visible" /\ ~s.initialHeld
    THEN [_requestPark(_hideAtC(s))
            EXCEPT !.hist.regained = @ \/ Running(s.anims) # <<>>]
    ELSE s

\* a host call or a page event other than visibilitychange begins
Fresh(s) == [s EXCEPT !.hist.regained = FALSE]

_onResize(s) == [s EXCEPT !.style.width = "100vw", !.style.height = "100vh"]

\* the callback of a _wait(bufferTime) timer: the awaiting function resumes
timerFired(s) ==
    LET t == Head(s.timers)
        s1 == [s EXCEPT !.timers = Tail(@)]
    IN  IF t.k = "cover" THEN markAndGo(s1, t.call, t.reached)
        ELSE startOut(s1, t.rm)

\* a hold timer whose callback does not release the hold
holdTimerFired_noRelease(s) == [s EXCEPT !.initialHoldTimer = FALSE]

\* the callback of the hold timer, lines 131-133
holdTimerFired(s) ==
    LET s1 == [s EXCEPT !.initialHoldTimer = FALSE]
    IN  IF s1.initialHeld THEN releaseInitialHold(s1) ELSE s1

\* ------------------------------------------------------ one rendering frame
\* An animation is "new" until its first frame, then "running", then
\* "finished": this.duration is longer than one frame, so an animation does
\* not end in the frame that first shows it.  All animations last
\* this.duration, so they end in creation order.
Started(as) == SelectSeq(as, LAMBDA a : a.phase = "running")

\* The first n started animations reach their end: they stay on the overlay,
\* filling forwards, and their 'finish' events are dispatched in this frame.
\* The new animations have had their first frame.
RECURSIVE finishFirst(_, _)
finishFirst(as, n) ==
    IF as = <<>> THEN as
    ELSE IF Head(as).phase = "running" /\ n > 0
    THEN <<[Head(as) EXCEPT !.phase = "finished", !.cont = NoCont]>>
            \o finishFirst(Tail(as), n - 1)
    ELSE IF Head(as).phase = "new"
    THEN <<[Head(as) EXCEPT !.phase = "running"]>> \o finishFirst(Tail(as), n)
    ELSE <<Head(as)>> \o finishFirst(Tail(as), n)

\* the animations still applying that can be rendered again
Relevant(as) ==
    IF as # <<>> /\ as[Len(as)].phase = "finished"
    THEN Running(as) \o <<as[Len(as)]>>
    ELSE Running(as)

Event(cont, canceled) == [cont |-> cont, canceled |-> canceled]

RECURSIVE EventsOf(_, _)
EventsOf(conts, canceled) ==
    IF conts = <<>> THEN <<>>
    ELSE <<Event(Head(conts), canceled)>> \o EventsOf(Tail(conts), canceled)

\* _animate's listeners: 'finish' resolves, 'cancel' rejects; the awaiting
\* function resumes in the microtasks that follow the listener.
settle(s, e) ==
    IF e.cont.k = "cover" THEN coverSettled(s, e.cont, e.canceled)
    ELSE IF e.cont.k = "out" THEN outSettled(s, e.cont)
    ELSE s

RECURSIVE dispatch(_, _)
dispatch(s, events) ==
    IF events = <<>> THEN s
    ELSE dispatch(settle(s, Head(events)), Tail(events))

\* requestAnimationFrame(() => this._parkAtAAndHide())
runAnimationFrameCallbacks(s) ==
    IF s.raf THEN [_parkAtAAndHide(s) EXCEPT !.raf = FALSE] ELSE s

\* One frame: the 'cancel' events queued since the last frame and the
\* 'finish' events of the animations that ended are sent, then the animation
\* frame callbacks are run.
frame(s, n) ==
    LET finishing == SubSeq(Started(s.anims), 1, n)
        events == EventsOf(s.cancelEvents, TRUE)
                    \o EventsOf(ContsOf(finishing), FALSE)
        s1 == [s EXCEPT !.anims = Relevant(finishFirst(@, n)),
                        !.cancelEvents = <<>>]
    IN  runAnimationFrameCallbacks(dispatch(s1, events))

\* ------------------------------------------------------------- constructor
Hist0(initialHold, marker0) ==
    [initialHold |-> initialHold,  \* the initialHold option
     marker0 |-> marker0,          \* the marker as the page load found it
     forced |-> FALSE,             \* a transitionTo interrupted another one
     unhandled |-> FALSE,          \* a rejected promise had no handler
     regained |-> FALSE,           \* the tab came back to the foreground with
                                   \* an animation in flight, and no host call
                                   \* or page event has followed
     gateOuts |-> 0]               \* _animateOutThenHide calls made by
                                   \* releaseInitialHold

_setupOverlayStyles(s) ==
    LET s1 == [s EXCEPT !.style.width = "100vw", !.style.height = "100vh"]
    IN  IF s.effect = "slide" THEN s1
        ELSE [s1 EXCEPT
                !.style.opacity = IF @ = "" THEN "1" ELSE @,
                !.style.visibility = IF @ = "" THEN "visible" ELSE @]

\* lines 106-134; the queueMicrotask of line 135 is the variable microtask
constructor(effect, buffer, reduce, initialHold, marker0) ==
    LET s0 == [effect |-> effect, buffer |-> buffer, reduce |-> reduce,
               isAnimating |-> FALSE, initialHeld |-> initialHold,
               initialHoldTimer |-> FALSE, style |-> BlankStyle,
               anims |-> <<>>, marker |-> marker0, timers |-> <<>>,
               raf |-> FALSE, cancelEvents |-> <<>>, navLog |-> <<>>,
               hist |-> Hist0(initialHold, marker0), calls |-> 0]
        s1 == _onResize(_parkAtAAndHide(_stopAllAnimations(_setupOverlayStyles(s0))))
    IN  [s1 EXCEPT !.initialHoldTimer = s1.initialHeld]

\* the constructor call has returned the manager
Constructed ==
    [built |-> "yes", error |-> "", listeners |-> TRUE,
     args |-> [overlay |-> "element"]]

\* the state of what the run does not exercise
\* no link was clicked
NoClick ==
    [e |-> [metaKey |-> FALSE, ctrlKey |-> FALSE,
            shiftKey |-> FALSE, altKey |-> FALSE],
     anchor |-> [present |-> FALSE, href |-> "", target |-> ""],
     prevented |-> FALSE, handed |-> "", returned |-> TRUE]

\* a BroadcastManager nothing was done to: this.contextCodes in insertion
\* order, the last operation on it, and the onMatch calls that operation made
BmIdle == [contextCodes |-> <<>>, op |-> [name |-> "none"], called |-> <<>>]

\* no applyComponentsGroup call was made
CmIdle ==
    [batch |-> <<>>,      \* the batch passed
     ready |-> TRUE,      \* document.readyState is not 'loading'
     phase |-> "idle",    \* of the promise the call returned
     jobs |-> <<>>,       \* each job: "fetching", "mounted" or "failed"
     results |-> <<>>,    \* what each job's mount returned
     order |-> <<>>,      \* the jobs in the order their fetches completed
     value |-> <<>>,      \* what the call's promise was fulfilled with
     cb |-> "none",       \* opts.onProgress: "none", or what a call of it
                          \* does: "returns" or "throws"
     progress |-> <<>>,   \* the arguments of the onProgress calls made
     why |-> <<>>,        \* what each failed job rejected with
     failed |-> <<>>,     \* the failed jobs in the order they rejected
     error |-> <<>>]      \* what the call's promise was rejected with

\* an attribute, or a value that may be null: absent, or present with a string
\* (strings are sequences of characters)
NoAttr == [has |-> FALSE, v |-> <<>>]

Attr(v) == [has |-> TRUE, v |-> v]

\* a page without contact links
ClIdle ==
    [anchors |-> <<>>,      \* the managed anchors, in managedAnchors order
     orig |-> <<>>,         \* each anchor as initContactLink found it
     clipboard |-> FALSE,   \* navigator.clipboard is there
     activations |-> <<>>,  \* pending setTimeout(activateContact, 30)
     writes |-> <<>>,       \* pending navigator.clipboard.writeText promises
     copyTimers |-> <<>>,   \* pending setTimeout(..., 1500)
     last |-> [op |-> "none"],  \* the last handler run and what it did
     clicks |-> 0]          \* clicks so far

\* no service key is stored and no request was made
SkIdle ==
    [key |-> NoAttr,        \* localStorage.getItem('serviceKey')
     input |-> <<>>,        \* the value of the auth page's key input
     status |-> "",         \* what the auth page reports
     request |-> [made |-> FALSE],   \* the last call of the real fetch
     last |-> "none",       \* the last handler run: "save" or "fetch"
     ops |-> 0]             \* handlers run so far

\* element.style: the properties the fade helpers write
NoStyle == [opacity |-> "", willChange |-> "", transition |-> ""]

\* no mount call was made, on a page without a mount target
MtIdle ==
    [fadeIn |-> FALSE,      \* this.fadeIn
     el |-> [kids |-> <<>>, style |-> NoStyle],  \* the target element
     sibs |-> <<>>,         \* the children of its parent, in document order
     calls |-> <<>>,        \* the mount calls made, in call order
     rafs |-> <<>>,         \* pending requestAnimationFrame callbacks
     cleanups |-> <<>>,     \* fades whose transitionend or timeout is due
     last |-> 0]            \* the call the last step belonged to

OthersIdle ==
    /\ ctor = Constructed /\ click = NoClick /\ bm = BmIdle /\ cm = CmIdle
    /\ cl = ClIdle /\ sk = SkIdle /\ mt = MtIdle

Init ==
    \E effect \in {"slide", "fade"}, buffer \in {0, 1},
       reduce \in BOOLEAN, initialHold \in BOOLEAN, marker0 \in BOOLEAN :
        LET s == constructor(effect, buffer, reduce, initialHold, marker0)
        IN  /\ transitionEffect = effect
            /\ bufferTime = buffer
            /\ reduceMotion = reduce
            /\ _isAnimating = s.isAnimating
            /\ _initialHeld = s.initialHeld
            /\ _initialHoldTimer = s.initialHoldTimer
            /\ style = s.style
            /\ anims = s.anims
            /\ marker = s.marker
            /\ timers = s.timers
            /\ raf = s.raf
            /\ cancelEvents = s.cancelEvents
            /\ navLog = s.navLog
            /\ hist = s.hist
            /\ microtask = ~initialHold
            /\ page = "loading"
            /\ nCalls = 0 /\ nEvents = 0
            /\ OthersIdle

\* ----------------------------------------------------------------- actions
Alive == page \in {"loading", "shown"} /\ ~microtask

Budget == nCalls + nEvents < MaxExternal

envVars == <<microtask, page, nEvents>>

\* line 135: queueMicrotask(() => this._animateOutThenHide())
ConstructorMicrotask ==
    /\ microtask
    /\ Commit(_animateOutThenHide(Cur, FALSE))
    /\ microtask' = FALSE
    /\ UNCHANGED <<page, nEvents>>

TransitionTo ==
    /\ Alive /\ Budget
    /\ Commit(transitionTo(Fresh(Cur), nCalls + 1))
    /\ UNCHANGED <<microtask, page, nEvents>>

\* The host page may call it when the manager was constructed held.
ReleaseInitialHold ==
    /\ Alive /\ hist.initialHold
    /\ Commit(releaseInitialHold(Fresh(Cur)))
    /\ UNCHANGED envVars

HoldTimerFire ==
    /\ Alive /\ _initialHoldTimer
    /\ Commit(holdTimerFired(Cur))
    /\ UNCHANGED envVars

TimerFire ==
    /\ Alive /\ timers # <<>>
    /\ Commit(timerFired(Cur))
    /\ UNCHANGED envVars

Frame ==
    /\ Alive
    /\ \E n \in 0..Len(Started(anims)) :
        /\ n > 0 \/ cancelEvents # <<>> \/ raf \/ Running(anims) # Started(anims)
        /\ Commit(frame(Cur, n))
    /\ UNCHANGED envVars

\* the pageshow that ends the page load
Pageshow ==
    /\ page = "loading" /\ ~microtask
    /\ Commit(pageshow(Fresh(Cur), FALSE))
    /\ page' = "shown"
    /\ UNCHANGED <<microtask, nEvents>>

\* The page is left: pagehide, and the document is frozen in the
\* back/forward cache with its pending callbacks.
Pagehide ==
    /\ Alive /\ Budget
    /\ Commit([pagehide(Fresh(Cur)) EXCEPT !.hist.forced = FALSE, !.navLog = <<>>])
    /\ page' = "cached"
    /\ nEvents' = nEvents + 1
    /\ UNCHANGED microtask

\* The page comes back from the back/forward cache: pageshow, persisted.
\* The pages shown meanwhile have set or removed the marker.
Restore ==
    /\ page = "cached"
    /\ \E m \in BOOLEAN : Commit(pageshow([Fresh(Cur) EXCEPT !.marker = m], TRUE))
    /\ page' = "shown"
    /\ UNCHANGED <<microtask, nEvents>>

Popstate ==
    /\ Alive /\ Budget
    /\ Commit(popstate(Fresh(Cur)))
    /\ nEvents' = nEvents + 1
    /\ UNCHANGED <<microtask, page>>

\* visibilitychange with document.visibilityState = state.  Nothing else
\* reads the visibility state, so it is not kept.
VisibilityChange ==
    /\ Alive
    /\ \E state \in {"hidden", "visible"} :
        /\ state = "visible" => Budget
        /\ Commit(visibilitychange(Cur, state))
        /\ nEvents' = IF state = "visible" THEN nEvents + 1 ELSE nEvents
    /\ UNCHANGED <<microtask, page>>

Resize ==
    /\ Alive
    /\ Commit(_onResize(Cur))
    /\ UNCHANGED envVars

Next ==
    \/ ConstructorMicrotask
    \/ TransitionTo
    \/ ReleaseInitialHold
    \/ HoldTimerFire
    \/ TimerFire
    \/ Frame
    \/ Pageshow
    \/ Pagehide
    \/ Restore
    \/ Popstate
    \/ VisibilityChange
    \/ Resize

Spec == Init /\ [][Next]_vars

\* ------------------------------------------------------------------ claims
HasOut(as) == \E i \in 1..Len(as) : as[i].kind = "out"

\* C1: without reduced motion, at every window.location.assign the overlay
\* is rendered at B and visible.
C1_CoveredAtAssign ==
    ~reduceMotion => \A i \in 1..Len(navLog) : navLog[i].covering

\* C2: without reduced motion, at every window.location.assign the marker is
\* already written, and the call that writes it has reached B before: its
\* cover animation finished, or it forced the overlay to B.
C2_MarkerBeforeAssign ==
    ~reduceMotion => \A i \in 1..Len(navLog) :
                        navLog[i].marker /\ navLog[i].reached

\* both ways to B: the interrupting call went first, the cancelled one after
C2_Witness ==
    /\ ~reduceMotion
    /\ Len(navLog) = 2
    /\ navLog[1].call = 2 /\ navLog[2].call = 1

\* C3: once a transitionTo has interrupted a running transition and forced
\* the overlay to B, the overlay stays at B, visible, with no animation in
\* flight, until the page is left.
C3_ForcedStaysCovered ==
    (hist.forced /\ Alive) => (Covering(Cur) /\ Running(anims) = <<>>)

\* C4: a call superseded by a later transitionTo never navigates: every
\* window.location.assign is made by the latest call.
C4_OnlyLatestNavigates ==
    ~reduceMotion => \A i \in 1..Len(navLog) : navLog[i].call = navLog[i].calls

\* C5: at most one animation is in flight on the overlay.
C5_OneAnimation == Len(Running(anims)) <= 1

\* C6: on a load that finds no marker, is not restored from the back/forward
\* cache and has no Hold Gate, no B->C animation is ever started.
C6_NoUncoverOnPlainLoad ==
    (~hist.initialHold /\ ~hist.marker0 /\ page = "loading" /\ nCalls = 0)
        => ~HasOut(anims)

\* C7: while the Hold Gate is held, no B->C animation is started.
C7_HeldNoUncover == _initialHeld => ~HasOut(anims)

\* C9: a marker set by transitionTo is still set until the page is left.
C9_MarkerKept ==
    (Alive /\ \E i \in 1..Len(navLog) : navLog[i].marker /\ navLog[i].reached)
        => marker

\* ---------------------------------------------------------------- fairness
\* The browser runs every queued microtask, fires every timer, renders
\* frames and ends the page load, as long as the page is not frozen.
Scheduled ==
    \/ ConstructorMicrotask
    \/ HoldTimerFire
    \/ TimerFire
    \/ Frame
    \/ Pageshow

Fairness == WF_vars(Scheduled)

\* The page left to itself: the host page starts no navigation and never
\* releases the Hold Gate.
NextLive ==
    \/ ConstructorMicrotask
    \/ HoldTimerFire
    \/ TimerFire
    \/ Frame
    \/ Pageshow
    \/ Pagehide
    \/ Restore
    \/ Popstate
    \/ VisibilityChange
    \/ Resize

LiveSpec == Init /\ [][NextLive]_vars /\ Fairness

AtRest == ~_initialHeld /\ Parked(Cur) /\ Running(anims) = <<>>

\* C8: with initialHold and releaseInitialHold never called, the failsafe
\* timer releases the hold, the B->C animation is run, and the overlay ends
\* parked at A, hidden (unless the page stays frozen in the back/forward
\* cache).
C8_HoldTimesOut ==
    hist.initialHold =>
        /\ <>(page = "cached" \/ reduceMotion \/ (~_initialHeld /\ HasOut(anims)))
        /\ <>[](page = "cached" \/ AtRest)

\* the state C8 ends in, reached through a finished B->C animation
C8_Witness ==
    /\ hist.initialHold /\ ~reduceMotion /\ page = "shown" /\ AtRest
    /\ \E i \in 1..Len(anims) : anims[i].kind = "out" /\ anims[i].phase = "finished"

RemovalCount(s) ==
    Cardinality({i \in 1..Len(s.anims) : s.anims[i].cont.rm})
      + Cardinality({i \in 1..Len(s.cancelEvents) : s.cancelEvents[i].rm})
      + Cardinality({i \in 1..Len(s.timers) : s.timers[i].rm})

ParkedNow == Parked(Cur)
RemovalsNow == RemovalCount(Cur)
AtBNow == InlinePos(Cur) = "B" /\ Visible(Cur)

\* a pageshow that finds the page restored from the back/forward cache, or
\* the marker set
PageshowOwingUncover ==
    \/ page = "cached" /\ page' = "shown"
    \/ page = "loading" /\ page' = "shown" /\ marker

\* C10, the handler: the overlay is put at B, visible, and the B->C
\* animation is started from there (after the buffer, if there is one).
C10_PlayedFromB ==
    (PageshowOwingUncover /\ ~reduceMotion) =>
        /\ AtBNow'
        /\ IF bufferTime > 0
           THEN timers' # <<>> /\ timers'[Len(timers')].k = "out"
                               /\ timers'[Len(timers')].rm
           ELSE anims' # <<>> /\ anims'[Len(anims')].kind = "out"
                              /\ anims'[Len(anims')].phase = "new"
                              /\ anims'[Len(anims')].cont.rm

\* C10, the removal: the page removes the marker only when the B->C
\* animation of such a pageshow settles, and the frame that settles it
\* leaves the overlay parked at A, hidden.
C10_RemovedOnSettle ==
    (marker /\ ~marker' /\ page # "cached" /\ ~reduceMotion) =>
        /\ RemovalsNow' < RemovalsNow
        /\ ParkedNow'

\* C10: if pageshow fires with the page restored from the back/forward cache
\* or with the marker set, the B->C animation is played from B, the overlay
\* then ends parked at A, hidden, and the marker is removed only after that
\* animation has settled, and it is removed eventually (unless the page is
\* frozen in the back/forward cache).
C10_UncoverThenClear ==
    /\ [][C10_PlayedFromB /\ C10_RemovedOnSettle]_vars
    /\ (page = "shown" /\ marker) ~> (~marker \/ page = "cached")
    /\ (page = "shown") ~> (page = "cached" \/ (ParkedNow /\ Running(anims) = <<>>))

\* the marker found by the load has been removed after a finished B->C
C10_Witness ==
    /\ ~reduceMotion /\ hist.marker0 /\ page = "shown" /\ ~marker /\ ParkedNow
    /\ \E i \in 1..Len(anims) : anims[i].kind = "out" /\ anims[i].phase = "finished"

\* ------------------------------------------- the motion preference changes
\* _shouldReduceMotion asks window.matchMedia on every call: the user may
\* switch the preference while the page is shown.
MediaChange ==
    /\ Alive /\ Budget
    /\ reduceMotion' = ~reduceMotion
    /\ nEvents' = nEvents + 1
    /\ UNCHANGED <<transitionEffect, bufferTime, _isAnimating, _initialHeld,
                   _initialHoldTimer, style, anims, marker, timers, raf,
                   cancelEvents, microtask, page, navLog, hist, nCalls,
                   others>>

PrefNext ==
    \/ ConstructorMicrotask
    \/ TransitionTo
    \/ ReleaseInitialHold
    \/ HoldTimerFire
    \/ TimerFire
    \/ Frame
    \/ Pageshow
    \/ Pagehide
    \/ Restore
    \/ Popstate
    \/ VisibilityChange
    \/ Resize
    \/ MediaChange

PrefSpec == Init /\ [][PrefNext]_vars

\* C11: a transitionTo called while the reduced-motion preference is in
\* effect calls window.location.assign(url) and does nothing else: it starts
\* no animation, no timer and no animation frame callback, and leaves the
\* overlay, the marker and _isAnimating alone, whatever the manager's state.
C11_ReducedJustNavigates ==
    [][(nCalls' = nCalls + 1 /\ reduceMotion) =>
          /\ navLog' = Append(navLog, [call |-> nCalls', calls |-> nCalls',
                                       marker |-> marker,
                                       covering |-> Covering(Cur),
                                       reached |-> FALSE, reduced |-> TRUE])
          /\ UNCHANGED <<anims, timers, raf, cancelEvents, style, marker,
                         _isAnimating, _initialHeld, _initialHoldTimer>>]_vars

\* a call under reduced motion has navigated while the cover animation of an
\* earlier call was still running
C11_Witness ==
    /\ navLog # <<>> /\ navLog[Len(navLog)].reduced
    /\ navLog[Len(navLog)].call = nCalls
    /\ _isAnimating
    /\ \E i \in 1..Len(anims) :
          /\ anims[i].phase = "running" /\ anims[i].kind = "in"
          /\ anims[i].cont.call < nCalls

NewCount(as) == Cardinality({i \in 1..Len(as) : as[i].phase = "new"})

\* a step that runs _animateOutThenHide outside the pageshow handler: the
\* constructor's microtask, or the release of the Hold Gate
UncoverStep ==
    \/ microtask /\ ~microtask'
    \/ _initialHeld /\ ~_initialHeld'

\* C12, the uncover step: under reduced motion _animateOutThenHide starts no
\* animation and no timer, writes C hidden at once and asks for the next
\* animation frame, whose callback writes A hidden.
C12_InstantUncover ==
    /\ (UncoverStep /\ reduceMotion) =>
          /\ anims' = anims /\ timers' = timers
          /\ style' = _hideAtC(Cur).style
          /\ raf'
    /\ (raf /\ ~raf') => ParkedNow'

\* C12, every operation: no step taken while reduced motion is in effect
\* starts an animation.
C12_NoAnimationStarted ==
    reduceMotion => NewCount(anims') <= NewCount(anims)

\* C12: under the reduced-motion preference the uncover step is an
\* instantaneous state change, and no operation of the manager starts an
\* animation while reduced motion is in effect.
C12_ReducedNeverAnimates ==
    [][C12_InstantUncover /\ C12_NoAnimationStarted]_vars

OutTimers(ts) == Cardinality({i \in 1..Len(ts) : ts[i].k = "out"})

\* the step resumes an _animateOutThenHide after its buffer wait
AfterBufferWait ==
    /\ timers # <<>> /\ Head(timers).k = "out"
    /\ timers' = Tail(timers)

\* C12 as the code has it: under reduced motion the uncover step is an
\* instantaneous state change; no operation that begins while reduced motion
\* is in effect starts an animation or a buffer wait for one.  The only
\* animation started under reduced motion is the B->C animation of an
\* _animateOutThenHide that read the preference before its buffer wait.
C12_ReducedAnimatesOnlyAfterWait ==
    [][/\ C12_InstantUncover
       /\ reduceMotion =>
            /\ NewCount(anims') > NewCount(anims) => AfterBufferWait
            /\ OutTimers(timers') <= OutTimers(timers)]_vars

\* the constructor's microtask has run under reduced motion: C hidden, and
\* the park at A is due on the next animation frame
C12_Witness ==
    /\ reduceMotion /\ nEvents = 0 /\ nCalls = 0
    /\ ~hist.initialHold /\ ~microtask /\ page = "loading"
    /\ raf /\ anims = <<>> /\ timers = <<>>
    /\ style = _hideAtC(Cur).style

\* C13: in every reachable state the overlay is hidden whenever its position
\* is A or C, and visible whenever it is at B or an animation is in flight
\* (the position is the rendered one: between the keyframes while an
\* animation runs).
C13_VisibilityMatchesPosition ==
    Alive =>
        /\ RenderedPos(Cur) \in {"A", "C"} => ~Visible(Cur)
        /\ RenderedPos(Cur) \in {"B", "mid"} => Visible(Cur)

\* nothing the manager has scheduled is still to run
Quiescent ==
    /\ Running(anims) = <<>> /\ cancelEvents = <<>> /\ timers = <<>>
    /\ ~raf /\ ~microtask /\ ~_initialHoldTimer /\ page = "shown"

CancelDelivered(k) ==
    \E i \in 1..Len(cancelEvents) : cancelEvents[i].k = k

\* a rendering frame that delivers 'cancel' events
CancelFrame ==
    /\ Alive /\ cancelEvents # <<>>
    /\ \E n \in 0..Len(Started(anims)) : Cur' = frame(Cur, n)

\* the cancelled transitionTo calls go on: each has navigated or waits for
\* its buffer timer
CancelledCallsGoOn ==
    \A i \in 1..Len(cancelEvents) :
        cancelEvents[i].k = "cover" =>
            \/ \E j \in 1..Len(navLog') :
                  /\ navLog'[j].call = cancelEvents[i].call
                  /\ navLog'[j].marker /\ navLog'[j].reached
            \/ \E j \in 1..Len(timers') :
                  /\ timers'[j].k = "cover"
                  /\ timers'[j].call = cancelEvents[i].call

StyleValues ==
    [visibility : {"", "hidden", "visible"},
     transform : {"", A_transform, B_transform, C_transform},
     opacity : {"", "0", "1"},
     width : {"", "100vw"},
     height : {"", "100vh"}]

ParkInit ==
    /\ transitionEffect \in {"slide", "fade"}
    /\ style \in StyleValues
    /\ ~Parked([effect |-> transitionEffect, style |-> style])
    /\ bufferTime = 0 /\ reduceMotion = FALSE
    /\ _isAnimating = FALSE /\ _initialHeld = FALSE
    /\ _initialHoldTimer = FALSE
    /\ anims = <<>> /\ marker = FALSE /\ timers = <<>> /\ raf = FALSE
    /\ cancelEvents = <<>> /\ microtask = FALSE /\ page = "shown"
    /\ navLog = <<>> /\ hist = Hist0(FALSE, FALSE)
    /\ nCalls = 0 /\ nEvents = 0
    /\ OthersIdle

ParkAtAAndHide == Commit(_parkAtAAndHide(Cur)) /\ UNCHANGED envVars

ShowAtB == Commit(_showAtB(Cur)) /\ UNCHANGED envVars

HideAtC == Commit(_hideAtC(Cur)) /\ UNCHANGED envVars

ParkNext == ParkAtAAndHide \/ ShowAtB \/ HideAtC

ParkSpec == ParkInit /\ [][ParkNext]_vars

\* C16: from any overlay style, slide or fade, one _parkAtAAndHide yields
\* position A with visibility hidden, a further call leaves the style as it
\* is, and the call touches nothing but the style.
C16_ParkIdempotent ==
    [][Cur' = _parkAtAAndHide(Cur) =>
          /\ ParkedNow'
          /\ _parkAtAAndHide(Cur') = Cur'
          /\ ParkedNow => style' = style
          /\ style'.width = style.width /\ style'.height = style.height]_vars

\* parked: in this specification only _parkAtAAndHide leads here
C16_Witness == ParkedNow /\ page = "shown" /\ style.width = "" /\ hist = Hist0(FALSE, FALSE)

\* -------------------------------------------------- new TransitionManager
\* The options of the call, and what the page holds: overlay is the element
\* passed or none; overlaySelector is not given, or matches an element, or
\* matches nothing.
Options ==
    [overlay : {"element", "none"},
     overlaySelector : {"none", "match", "nomatch"},
     transitionEffect : {"slide", "fade", "other"},
     bufferTime : {0, 1},
     reduce : BOOLEAN,
     initialHold : BOOLEAN]

\* line 106: overlay || document.querySelector(overlaySelector || '').
\* querySelector('') throws a SyntaxError.
findOverlay(a) ==
    IF a.overlay = "element" THEN "element"
    ELSE IF a.overlaySelector = "none" THEN "SyntaxError"
    ELSE IF a.overlaySelector = "match" THEN "element"
    ELSE "null"

\* the page before the call: no manager, an untouched overlay style
Unbuilt(marker0) ==
    [effect |-> "", buffer |-> 0, reduce |-> FALSE,
     isAnimating |-> FALSE, initialHeld |-> FALSE,
     initialHoldTimer |-> FALSE, style |-> BlankStyle,
     anims |-> <<>>, marker |-> marker0, timers |-> <<>>,
     raf |-> FALSE, cancelEvents |-> <<>>, navLog |-> <<>>,
     hist |-> Hist0(FALSE, marker0), calls |-> 0]

\* a constructor that looks for the overlay after it has set everything up
construct_lateCheck(a, marker0) ==
    LET f == findOverlay(a)
        effect == IF a.transitionEffect = "fade" THEN "fade" ELSE "slide"
    IN  [built |-> IF f = "element" THEN "yes" ELSE "threw",
         error |-> IF f = "element" THEN ""
                   ELSE IF f = "null" THEN "overlay element not found" ELSE f,
         listeners |-> TRUE,
         microtask |-> ~a.initialHold,
         s |-> constructor(effect, a.bufferTime, a.reduce,
                           a.initialHold, marker0)]

\* the constructor, lines 93-137
construct(a, marker0) ==
    LET f == findOverlay(a)
        effect == IF a.transitionEffect = "fade" THEN "fade" ELSE "slide"
    IN  IF f = "SyntaxError"
        THEN [built |-> "threw", error |-> f, listeners |-> FALSE,
              microtask |-> FALSE, s |-> Unbuilt(marker0)]
        ELSE IF f = "null"
        THEN [built |-> "threw", error |-> "overlay element not found",
              listeners |-> FALSE, microtask |-> FALSE,
              s |-> Unbuilt(marker0)]
        ELSE [built |-> "yes", error |-> "", listeners |-> TRUE,
              microtask |-> ~a.initialHold,
              s |-> constructor(effect, a.bufferTime, a.reduce,
                                a.initialHold, marker0)]

ConstructInit ==
    /\ \E a \in Options :
          ctor = [built |-> "no", error |-> "", listeners |-> FALSE, args |-> a]
    /\ \E marker0 \in BOOLEAN :
          LET s == Unbuilt(marker0)
          IN  /\ transitionEffect = s.effect
              /\ bufferTime = s.buffer
              /\ reduceMotion = s.reduce
              /\ _isAnimating = s.isAnimating
              /\ _initialHeld = s.initialHeld
              /\ _initialHoldTimer = s.initialHoldTimer
              /\ style = s.style
              /\ anims = s.anims
              /\ marker = s.marker
              /\ timers = s.timers
              /\ raf = s.raf
              /\ cancelEvents = s.cancelEvents
              /\ navLog = s.navLog
              /\ hist = s.hist
              /\ nCalls = s.calls
    /\ microtask = FALSE /\ page = "loading" /\ nEvents = 0
    /\ click = NoClick /\ bm = BmIdle /\ cm = CmIdle
    /\ cl = ClIdle /\ sk = SkIdle /\ mt = MtIdle

Construct ==
    /\ ctor.built = "no"
    /\ \E r \in {construct(ctor.args, marker)} :
          /\ ctor' = [ctor EXCEPT !.built = r.built, !.error = r.error,
                                  !.listeners = r.listeners]
          /\ microtask' = r.microtask
          /\ transitionEffect' = r.s.effect
          /\ bufferTime' = r.s.buffer
          /\ reduceMotion' = r.s.reduce
          /\ _isAnimating' = r.s.isAnimating
          /\ _initialHeld' = r.s.initialHeld
          /\ _initialHoldTimer' = r.s.initialHoldTimer
          /\ style' = r.s.style
          /\ anims' = r.s.anims
          /\ marker' = r.s.marker
          /\ timers' = r.s.timers
          /\ raf' = r.s.raf
          /\ cancelEvents' = r.s.cancelEvents
          /\ navLog' = r.s.navLog
          /\ hist' = r.s.hist
          /\ nCalls' = r.s.calls
    /\ UNCHANGED <<page, nEvents, click, bm, cm, cl, sk, mt>>

ConstructNext == Construct

ConstructSpec == ConstructInit /\ [][ConstructNext]_vars

\* C17: constructing a TransitionManager when no overlay element is supplied
\* or found fails at once with an error: the call never returns a manager,
\* and when it has thrown no overlay style is written and no event listener,
\* hold timer or deferred uncover task is installed.
C17_NoOverlayFailsFirst ==
    /\ (ctor.built # "no" /\ findOverlay(ctor.args) # "element") =>
          ctor.built = "threw" /\ ctor.error # ""
    /\ ctor.built = "threw" =>
          /\ findOverlay(ctor.args) # "element"
          /\ style = BlankStyle
          /\ ~ctor.listeners /\ ~_initialHoldTimer /\ ~microtask
          /\ ~raf /\ cancelEvents = <<>> /\ anims = <<>>
          /\ ~_initialHeld

\* the call has thrown for a selector that matches nothing, with options
\* that would have armed the hold timer
C17_Witness ==
    /\ ctor.built = "threw" /\ ctor.error = "overlay element not found"
    /\ ctor.args.initialHold /\ ctor.args.transitionEffect = "fade"

\* ---------------------------------------------------------- handleLinkClick
\* The click event: its four modifier keys.
Events == [metaKey : BOOLEAN, ctrlKey : BOOLEAN,
           shiftKey : BOOLEAN, altKey : BOOLEAN]

\* The anchor: null (not present), or an element with its href ("" when it
\* has none) and its target.
Anchors ==
    {[present |-> FALSE, href |-> "", target |-> ""]}
      \cup [present : {TRUE}, href : {"", "url"},
            target : {"", "_self", "_blank"}]

\* a handler that does not look at the anchor's target
handleLinkClick_anyTarget(s, e, anchor, call) ==
    IF ~anchor.present \/ anchor.href = ""
    THEN [s |-> s, prevented |-> FALSE, handed |-> "", returned |-> TRUE]
    ELSE IF e.metaKey \/ e.ctrlKey \/ e.shiftKey \/ e.altKey
    THEN [s |-> s, prevented |-> FALSE, handed |-> "", returned |-> TRUE]
    ELSE [s |-> transitionTo(s, call), prevented |-> TRUE,
          handed |-> anchor.href, returned |-> TRUE]

\* lines 186-191.  transitionTo is async: what it returns is a promise, never
\* false, so the handler returns true on every path.
handleLinkClick(s, e, anchor, call) ==
    IF ~anchor.present \/ anchor.href = ""
    THEN [s |-> s, prevented |-> FALSE, handed |-> "", returned |-> TRUE]
    ELSE IF e.metaKey \/ e.ctrlKey \/ e.shiftKey \/ e.altKey
            \/ anchor.target = "_blank"
    THEN [s |-> s, prevented |-> FALSE, handed |-> "", returned |-> TRUE]
    ELSE [s |-> transitionTo(s, call), prevented |-> TRUE,
          handed |-> anchor.href, returned |-> TRUE]

\* A click on a link of the page.  A click left to the browser counts as an
\* external event, one handed to transitionTo as a call.
LinkClick ==
    /\ Alive /\ nCalls + nEvents < MaxClicks
    /\ \E e \in Events, anchor \in Anchors :
        \E r \in {handleLinkClick(Fresh(Cur), e, anchor, nCalls + 1)} :
            /\ click' = [e |-> e, anchor |-> anchor, prevented |-> r.prevented,
                         handed |-> r.handed, returned |-> r.returned]
            /\ nEvents' = IF r.prevented THEN nEvents ELSE nEvents + 1
            /\ _isAnimating' = r.s.isAnimating
            /\ _initialHeld' = r.s.initialHeld
            /\ _initialHoldTimer' = r.s.initialHoldTimer
            /\ style' = r.s.style
            /\ anims' = r.s.anims
            /\ marker' = r.s.marker
            /\ timers' = r.s.timers
            /\ raf' = r.s.raf
            /\ cancelEvents' = r.s.cancelEvents
            /\ navLog' = r.s.navLog
            /\ hist' = r.s.hist
            /\ nCalls' = r.s.calls
    /\ UNCHANGED <<cfgVars, microtask, page, ctor, bm, cm, cl, sk, mt>>

LinkNext ==
    \/ LinkClick
    \/ ConstructorMicrotask
    \/ TimerFire
    \/ Frame

LinkSpec == Init /\ [][LinkNext]_vars

\* the click is one the handler leaves to the browser
Deferred(c) ==
    \/ ~c.anchor.present
    \/ c.anchor.href = ""
    \/ c.e.metaKey \/ c.e.ctrlKey \/ c.e.shiftKey \/ c.e.altKey
    \/ c.anchor.target = "_blank"

\* C18: handleLinkClick leaves the click to the browser (no preventDefault,
\* no transitionTo: the manager is untouched) exactly when the click carries
\* a modifier key, the anchor targets _blank, or there is no anchor or no
\* href; in every other case it calls preventDefault and hands anchor.href
\* to transitionTo exactly once.
C18_LinkClickDefersOrHands ==
    [][(nCalls' + nEvents' # nCalls + nEvents) =>
          IF Deferred(click')
          THEN /\ ~click'.prevented /\ click'.handed = ""
               /\ nCalls' = nCalls
               /\ Cur' = Fresh(Cur)
          ELSE /\ click'.prevented /\ click'.handed = click'.anchor.href
               /\ nCalls' = nCalls + 1
               /\ Cur' = transitionTo(Fresh(Cur), nCalls + 1)]_vars

\* a plain click on a link was handed to transitionTo, which has started
\* the cover animation
C18_Witness ==
    /\ click.prevented /\ click.handed = "url" /\ click.anchor.target = "_self"
    /\ nCalls = 1 /\ _isAnimating /\ anims # <<>>

\* ------------------------------------------------------- BroadcastManager
\* Strings are sequences of characters.
MaxChars == 3

Chars == {"1", "2", " "}

RECURSIVE StringsUpTo(_)
StringsUpTo(n) ==
    IF n = 0 THEN {<<>>}
    ELSE LET shorter == StringsUpTo(n - 1)
         IN  shorter \cup {Append(s, c) : s \in shorter, c \in Chars}

\* the e.data of the 'update' events
Data == StringsUpTo(MaxChars)

\* The IDs the page passes: numbers and strings.
Ids ==
    {[t |-> "number", v |-> 1], [t |-> "number", v |-> 12],
     [t |-> "string", s |-> <<"1">>], [t |-> "string", s |-> <<" ", "1">>],
     [t |-> "string", s |-> <<"2">>]}

\* String(id)
String(id) ==
    IF id.t = "string" THEN id.s
    ELSE IF id.v = 1 THEN <<"1">> ELSE <<"1", "2">>

\* String.prototype.trim
RECURSIVE trimStart(_)
trimStart(s) ==
    IF s # <<>> /\ Head(s) = " " THEN trimStart(Tail(s)) ELSE s

RECURSIVE trimEnd(_)
trimEnd(s) ==
    IF s # <<>> /\ s[Len(s)] = " " THEN trimEnd(SubSeq(s, 1, Len(s) - 1)) ELSE s

trim(s) == trimEnd(trimStart(s))

\* Set.prototype.has / add / delete on the insertion-ordered set
has(codes, x) == \E i \in 1..Len(codes) : codes[i] = x

add(codes, x) == IF has(codes, x) THEN codes ELSE Append(codes, x)

delete(codes, x) == SelectSeq(codes, LAMBDA y : y # x)

\* new Set(ids.map(String))
RECURSIVE newSet(_)
newSet(ids) ==
    IF ids = <<>> THEN <<>>
    ELSE add(newSet(SubSeq(ids, 1, Len(ids) - 1)), String(ids[Len(ids)]))

\* the argument of setContextIDs: an array of IDs, or one ID that is not an
\* array
IdLists ==
    {[array |-> TRUE, ids |-> <<>>]}
      \cup {[array |-> TRUE, ids |-> <<i>>] : i \in Ids}
      \cup {[array |-> TRUE, ids |-> <<i, j>>] : i \in Ids, j \in Ids}
      \cup {[array |-> FALSE, ids |-> <<i>>] : i \in Ids}

setContextIDs(b, arg) ==
    [b EXCEPT !.contextCodes = newSet(arg.ids),
              !.op = [name |-> "set", arg |-> arg], !.called = <<>>]

addContextID(b, id) ==
    [b EXCEPT !.contextCodes = add(@, String(id)),
              !.op = [name |-> "add", arg |-> id], !.called = <<>>]

removeContextID(b, id) ==
    [b EXCEPT !.contextCodes = delete(@, String(id)),
              !.op = [name |-> "remove", arg |-> id], !.called = <<>>]

clearContextIDs(b) ==
    [b EXCEPT !.contextCodes = <<>>,
              !.op = [name |-> "clear"], !.called = <<>>]

\* an 'update' listener that compares e.data as it came
onUpdate_untrimmed(b, data) ==
    [b EXCEPT !.op = [name |-> "update", arg |-> data],
              !.called = IF has(b.contextCodes, data) THEN <<data>> ELSE <<>>]

\* the 'update' listener of _initEventSource, lines 20-25
onUpdate(b, data) ==
    LET id == trim(data)
    IN  [b EXCEPT !.op = [name |-> "update", arg |-> data],
                  !.called = IF has(b.contextCodes, id) THEN <<id>> ELSE <<>>]

\* the TransitionManager of a page that is shown and at rest
TMIdle ==
    /\ transitionEffect = "slide" /\ bufferTime = 0 /\ reduceMotion = FALSE
    /\ _isAnimating = FALSE /\ _initialHeld = FALSE
    /\ _initialHoldTimer = FALSE
    /\ style = _parkAtAAndHide([effect |-> "slide", style |-> BlankStyle]).style
    /\ anims = <<>> /\ marker = FALSE /\ timers = <<>> /\ raf = FALSE
    /\ cancelEvents = <<>> /\ microtask = FALSE /\ page = "shown"
    /\ navLog = <<>> /\ hist = Hist0(FALSE, FALSE)
    /\ nCalls = 0 /\ nEvents = 0

\* new BroadcastManager(contextCodes, onMatch), lines 6-13
BmInit ==
    /\ TMIdle /\ ctor = Constructed /\ click = NoClick /\ cm = CmIdle
    /\ cl = ClIdle /\ sk = SkIdle /\ mt = MtIdle
    /\ \E arg \in IdLists : bm = setContextIDs(BmIdle, arg)

SetContextIDs ==
    /\ \E arg \in IdLists : bm' = setContextIDs(bm, arg)
    /\ UNCHANGED <<tmVars, ctor, click, cm, cl, sk, mt>>

AddContextID ==
    /\ \E id \in Ids : bm' = addContextID(bm, id)
    /\ UNCHANGED <<tmVars, ctor, click, cm, cl, sk, mt>>

RemoveContextID ==
    /\ \E id \in Ids : bm' = removeContextID(bm, id)
    /\ UNCHANGED <<tmVars, ctor, click, cm, cl, sk, mt>>

ClearContextIDs ==
    /\ bm' = clearContextIDs(bm)
    /\ UNCHANGED <<tmVars, ctor, click, cm, cl, sk, mt>>

\* the server sends an 'update' event
Update ==
    /\ \E data \in Data : bm' = onUpdate(bm, data)
    /\ UNCHANGED <<tmVars, ctor, click, cm, cl, sk, mt>>

BmNext ==
    \/ SetContextIDs
    \/ AddContextID
    \/ RemoveContextID
    \/ ClearContextIDs
    \/ Update

BmSpec == BmInit /\ [][BmNext]_vars

\* the set this.contextCodes holds
Codes(b) == {b.contextCodes[i] : i \in 1..Len(b.contextCodes)}

Spaces(n) == [i \in 1..n |-> " "]

\* t is d without its leading and trailing whitespace
IsTrimOf(t, d) ==
    /\ \E i, j \in 0..Len(d) : d = Spaces(i) \o t \o Spaces(j)
    /\ t # <<>> => (t[1] # " " /\ t[Len(t)] # " ")

\* the string form of an ID
StringForm(id) ==
    CASE id = [t |-> "number", v |-> 1] -> <<"1">>
      [] id = [t |-> "number", v |-> 12] -> <<"1", "2">>
      [] OTHER -> id.s

\* C19: the set calls build the set of the string forms of the IDs, with
\* setContextIDs replacing the whole set, and an incoming 'update' event
\* invokes onMatch(id) exactly once, with id the trimmed event data, if that
\* is in the set, and does not invoke onMatch otherwise.
C19_UpdateMatchesContextSet ==
    [][bm' # bm =>
        LET o == bm'.op
        IN  CASE o.name = "set" ->
                   /\ Codes(bm') = {StringForm(o.arg.ids[i]) :
                                       i \in 1..Len(o.arg.ids)}
                   /\ bm'.called = <<>>
              [] o.name = "add" ->
                   /\ Codes(bm') = Codes(bm) \cup {StringForm(o.arg)}
                   /\ bm'.called = <<>>
              [] o.name = "remove" ->
                   /\ Codes(bm') = Codes(bm) \ {StringForm(o.arg)}
                   /\ bm'.called = <<>>
              [] o.name = "clear" ->
                   /\ Codes(bm') = {}
                   /\ bm'.called = <<>>
              [] o.name = "update" ->
                   /\ Codes(bm') = Codes(bm)
                   /\ \A id \in Codes(bm) :
                         IsTrimOf(id, o.arg) => bm'.called = <<id>>
                   /\ (~\E id \in Codes(bm) : IsTrimOf(id, o.arg))
                         => bm'.called = <<>>
              [] OTHER -> FALSE]_vars

\* an event whose data needs trimming has matched the ID 12, which a
\* setContextIDs had put in place of the earlier set
C19_Witness ==
    /\ bm.op = [name |-> "update", arg |-> <<" ", "1", "2">>]
    /\ bm.called = << <<"1", "2">> >>
    /\ bm.contextCodes = << <<"1", "2">>, <<"2">> >>

\* -------------------------------------- ComponentManager: mounting a batch
\* the longest batch
MaxBatch == 3

\* An item: its target (an Element, a selector that matches, a selector that
\* matches nothing) and the component's name.
Items == [target : {"element", "#found", "#missing"}, name : {"x", "y"}]

RECURSIVE BatchesUpTo(_)
BatchesUpTo(n) ==
    IF n = 0 THEN {<<>>}
    ELSE LET shorter == BatchesUpTo(n - 1)
         IN  shorter \cup {Append(b, it) : b \in shorter, it \in Items}

\* what mount returns for an item: the element its html went into
Mounted(item) == [el |-> item.target, html |-> item.name]

\* a group value that lists the results as the fetches completed
groupValue_asCompleted(c) ==
    [k \in 1..Len(c.order) |-> c.results[c.order[k]]]

\* Promise.all(jobs): the fulfilment values in the order of the jobs
groupValue(c) == c.results

\* Promise.all(jobs), line 136: rejected with the first rejection, fulfilled
\* once every job is.
settleGroup(c) ==
    IF c.phase # "running" THEN c
    ELSE IF \E i \in 1..Len(c.jobs) : c.jobs[i] = "failed"
    THEN [c EXCEPT !.phase = "rejected", !.error = c.why[Head(c.failed)]]
    ELSE IF \A i \in 1..Len(c.jobs) : c.jobs[i] = "mounted"
    THEN [c EXCEPT !.phase = "fulfilled", !.value = groupValue(c)]
    ELSE c

\* a job up to its first await: mount calls _resolveTarget, which throws for
\* a selector that matches nothing, and then starts the fetch
startJob(item) == IF item.target = "#missing" THEN "failed" ELSE "fetching"

\* onProgress && onProgress(i + 1, total, { ok, ... }), lines 128 and 131,
\* for the item at position i - 1 of the batch
onProgress(c, i, ok) ==
    IF c.cb = "none" THEN c
    ELSE [c EXCEPT !.progress = Append(@, [index |-> (i - 1) + 1,
                                           total |-> Len(c.batch),
                                           ok |-> ok])]

\* the job of item i has rejected
jobFailed(c, i, error) ==
    [c EXCEPT !.jobs[i] = "failed", !.why[i] = error,
              !.failed = Append(@, i)]

\* a job that is given up once the group has rejected
jobSettled_untilRejected(c, i, ok) ==
    IF c.phase = "rejected" THEN jobFailed(c, i, <<"abandoned", i>>)
    ELSE IF ok
    THEN LET c1 == onProgress(c, i, TRUE)
         IN  IF c.cb = "throws"
             THEN jobFailed(onProgress(c1, i, FALSE), i, <<"callback", i>>)
             ELSE [c1 EXCEPT !.jobs[i] = "mounted",
                             !.results[i] = Mounted(c.batch[i])]
    ELSE jobFailed(onProgress(c, i, FALSE), i,
                   IF c.cb = "throws" THEN <<"callback", i>>
                   ELSE <<"item", i>>)

\* The job of item i, lines 124-134, once its mount has settled.  With ok the
\* component is mounted and onProgress is told so inside the try: if that call
\* throws, the catch calls onProgress again with the failure and rethrows.
\* Without ok the catch reports the failure and rethrows the item's error,
\* unless the call of onProgress itself throws.
jobSettled(c, i, ok) ==
    IF ok
    THEN LET c1 == onProgress(c, i, TRUE)
         IN  IF c.cb = "throws"
             THEN jobFailed(onProgress(c1, i, FALSE), i, <<"callback", i>>)
             ELSE [c1 EXCEPT !.jobs[i] = "mounted",
                             !.results[i] = Mounted(c.batch[i])]
    ELSE jobFailed(onProgress(c, i, FALSE), i,
                   IF c.cb = "throws" THEN <<"callback", i>>
                   ELSE <<"item", i>>)

\* the jobs whose mount throws before its fetch reject in batch order
RECURSIVE failedAtStart(_, _)
failedAtStart(c, i) ==
    IF i > Len(c.batch) THEN c
    ELSE failedAtStart(IF startJob(c.batch[i]) = "failed"
                       THEN jobSettled(c, i, FALSE) ELSE c,
                       i + 1)

\* mountGroup, lines 113-137
mountGroup(c) ==
    IF c.batch = <<>>
    THEN [c EXCEPT !.phase = "fulfilled", !.value = <<>>]
    ELSE settleGroup(
           failedAtStart(
             [c EXCEPT !.phase = "running",
                       !.jobs = [i \in 1..Len(c.batch) |-> "fetching"],
                       !.results = [i \in 1..Len(c.batch) |-> "none"],
                       !.why = [i \in 1..Len(c.batch) |-> <<>>]],
             1))

\* applyComponentsGroup, lines 257-277
applyComponentsGroup(c) ==
    IF ~c.ready /\ \E i \in 1..Len(c.batch) : c.batch[i].target # "element"
    THEN [c EXCEPT !.phase = "waiting"]
    ELSE mountGroup(c)

\* the DOMContentLoaded event
domContentLoaded(c) ==
    LET c1 == [c EXCEPT !.ready = TRUE]
    IN  IF c.phase = "waiting" THEN mountGroup(c1) ELSE c1

\* the fetch of job i completes: with ok the job mounts the component and
\* returns; otherwise fetchComponent throws and the job rethrows
fetchDone(c, i, ok) ==
    settleGroup(jobSettled([c EXCEPT !.order = Append(@, i)], i, ok))

CmInit ==
    /\ TMIdle /\ ctor = Constructed /\ click = NoClick /\ bm = BmIdle
    /\ cl = ClIdle /\ sk = SkIdle /\ mt = MtIdle
    /\ \E b \in BatchesUpTo(MaxBatch), r \in BOOLEAN,
          cb \in {"none", "returns", "throws"} :
          cm = [CmIdle EXCEPT !.batch = b, !.ready = r, !.cb = cb]

ApplyComponentsGroup ==
    /\ cm.phase = "idle"
    /\ cm' = applyComponentsGroup(cm)
    /\ UNCHANGED <<tmVars, ctor, click, bm, cl, sk, mt>>

DOMContentLoaded ==
    /\ ~cm.ready
    /\ cm' = domContentLoaded(cm)
    /\ UNCHANGED <<tmVars, ctor, click, bm, cl, sk, mt>>

FetchDone ==
    /\ \E i \in 1..Len(cm.jobs), ok \in BOOLEAN :
          /\ cm.jobs[i] = "fetching"
          /\ cm' = fetchDone(cm, i, ok)
    /\ UNCHANGED <<tmVars, ctor, click, bm, cl, sk, mt>>

CmNext ==
    \/ ApplyComponentsGroup
    \/ DOMContentLoaded
    \/ FetchDone

CmSpec == CmInit /\ [][CmNext]_vars

\* C20: the promise of mountGroup / applyComponentsGroup is fulfilled only
\* when every item of the batch has been mounted, and its value lists the
\* mount results in batch order, whatever the order in which the fetches
\* completed.
C20_GroupResolvesInBatchOrder ==
    cm.phase = "fulfilled" =>
        /\ Len(cm.value) = Len(cm.batch)
        /\ \A i \in 1..Len(cm.batch) :
              /\ cm.jobs[i] = "mounted"
              /\ cm.value[i] = Mounted(cm.batch[i])

\* fulfilled after the second item's fetch completed before the first's
C20_Witness ==
    /\ cm.phase = "fulfilled" /\ Len(cm.batch) >= 2
    /\ cm.order[1] = 2 /\ cm.order[2] = 1
    /\ cm.batch[1] # cm.batch[2]

\* the onProgress calls made for item i, in call order
Reports(i) == SelectSeq(cm.progress, LAMBDA e : e.index = i)

\* what onProgress is to be told for item i
Report(i, ok) == [index |-> i, total |-> Len(cm.batch), ok |-> ok]

\* mountGroup has been called with an onProgress callback
Reporting == cm.cb # "none" /\ cm.phase \in {"running", "rejected", "fulfilled"}

\* C33 as stated: a rejected group was rejected with the error of an item
\* that failed, and onProgress has been called exactly once for every item
\* whose job has settled (none for a job still fetching), with the item's
\* position + 1, the batch length and the item's outcome.
C33_ReportedOncePerItem ==
    Reporting =>
        /\ cm.phase = "rejected" =>
              \E i \in 1..Len(cm.batch) :
                  cm.jobs[i] = "failed" /\ cm.error = <<"item", i>>
        /\ \A i \in 1..Len(cm.batch) :
              IF cm.jobs[i] = "fetching" THEN Reports(i) = <<>>
              ELSE Reports(i) = <<Report(i, cm.jobs[i] = "mounted")>>

\* C33, amended: a rejected group was rejected with what the first job to
\* reject rejected with: that item's error, or what onProgress threw when it
\* was called for that item.  Every other job settles on its own: a job still
\* fetching has reported nothing; a mounted item has its mount result and was
\* reported once, as mounted; an item that failed was reported once, as
\* failed; and an item for which onProgress threw was reported as failed,
\* after having been reported as mounted if it had been mounted.
C33_ReportedPerItem ==
    Reporting =>
        /\ cm.phase = "rejected" =>
              /\ cm.failed # <<>>
              /\ cm.jobs[Head(cm.failed)] = "failed"
              /\ cm.error \in {<<"item", Head(cm.failed)>>,
                               <<"callback", Head(cm.failed)>>}
        /\ \A i \in 1..Len(cm.batch) :
              CASE cm.jobs[i] = "fetching" -> Reports(i) = <<>>
                [] cm.jobs[i] = "mounted" ->
                      /\ Reports(i) = <<Report(i, TRUE)>>
                      /\ cm.results[i] = Mounted(cm.batch[i])
                      /\ cm.cb = "returns"
                [] cm.jobs[i] = "failed" /\ cm.why[i] = <<"item", i>> ->
                      /\ Reports(i) = <<Report(i, FALSE)>>
                      /\ cm.cb = "returns"
                [] OTHER ->
                      /\ cm.jobs[i] = "failed" /\ cm.why[i] = <<"callback", i>>
                      /\ cm.cb = "throws"
                      /\ Reports(i) \in {<<Report(i, FALSE)>>,
                                         <<Report(i, TRUE), Report(i, FALSE)>>}

\* the first item's fetch failed and rejected the group; the second item was
\* mounted after that, and each was reported once
C33_Witness ==
    /\ cm.phase = "rejected" /\ cm.cb = "returns"
    /\ Len(cm.batch) = 2 /\ cm.order = <<1, 2>>
    /\ cm.jobs = <<"failed", "mounted">>
    /\ cm.error = <<"item", 1>>
    /\ cm.progress = <<Report(1, FALSE), Report(2, TRUE)>>

\* --------------------------------------- linkReplacer.js: contact links
\* the most managed anchors on a page
MaxAnchors == 2

\* the most clicks on contact links in one run
MaxContactClicks == 3

\* x || fallback, for a string
orStr(x, fallback) == IF x # <<>> THEN x ELSE fallback

\* getAttribute(name) || fallback
orElse(a, fallback) == IF a.has THEN orStr(a.v, fallback) ELSE fallback

\* URLSearchParams.toString: a blank in a value is written as "+"
encode(v) == [i \in 1..Len(v) |-> IF v[i] = " " THEN "+" ELSE v[i]]

\* lines 10-16
buildMailto(email, subject, body) ==
    LET params == (IF subject # <<>>
                   THEN << <<"subject=">> \o encode(subject) >> ELSE <<>>)
                  \o (IF body # <<>>
                      THEN << <<"body=">> \o encode(body) >> ELSE <<>>)
        query == IF params = <<>> THEN <<>>
                 ELSE IF Len(params) = 1 THEN params[1]
                 ELSE params[1] \o <<"&">> \o params[2]
    IN  <<"mailto:">> \o email
          \o (IF query # <<>> THEN <<"?">> \o query ELSE <<>>)

\* What the page's markup gives an anchor: its text and attributes ...
Markups ==
    [text : {<<>>, <<"c">>, <<" ", "c", " ">>},
     href : {NoAttr, Attr(<<>>), Attr(<<"/c">>)},
     title : {NoAttr, Attr(<<>>), Attr(<<"t">>)},
     target : {NoAttr, Attr(<<"_self">>)},
     rel : {NoAttr, Attr(<<"me">>)}]

PlainMarkup ==
    [text |-> <<"c">>, href |-> Attr(<<"#">>), title |-> NoAttr,
     target |-> NoAttr, rel |-> NoAttr]

\* ... and its data-* attributes ("" when there is none)
Data0 ==
    [mode |-> "", email |-> <<>>, subject |-> <<>>, body |-> <<>>,
     discord |-> <<>>, discordUrl |-> <<>>]

Configs ==
    {[Data0 EXCEPT !.mode = "email", !.email = <<"a@b">>],
     [Data0 EXCEPT !.mode = "Email", !.email = <<"a@b">>,
                   !.subject = <<"h", " ", "i">>, !.body = <<"b">>],
     [Data0 EXCEPT !.mode = "email"],
     [Data0 EXCEPT !.mode = "discord", !.discord = <<"d">>,
                   !.discordUrl = <<"https://d">>],
     [Data0 EXCEPT !.mode = "discord", !.discord = <<"d">>],
     [Data0 EXCEPT !.mode = "discord"],
     Data0}

\* the anchor element before initContactLink
newAnchor(markup, data) ==
    [text |-> markup.text, href |-> markup.href, title |-> markup.title,
     target |-> markup.target, rel |-> markup.rel, data |-> data,
     revealed |-> FALSE,      \* data-revealed = '1'
     copied |-> FALSE,        \* data-copied = '1'
     captured |-> FALSE,      \* dataset._initCaptured = '1'
     defaultText |-> <<>>, defaultHref |-> <<>>, defaultTitle |-> <<>>,
     defaultTarget |-> <<>>, defaultRel |-> <<>>,
     mode |-> ""]             \* the listener's mode

\* lines 21-31
captureInitialState(a) ==
    IF a.captured THEN a
    ELSE [a EXCEPT !.defaultText = trim(a.text),
                   !.defaultHref = orElse(a.href, <<"#">>),
                   !.defaultTitle = orElse(a.title, <<>>),
                   !.defaultTarget = orElse(a.target, <<>>),
                   !.defaultRel = orElse(a.rel, <<>>),
                   !.captured = TRUE]

\* setAttribute(name, value) if value is not empty, removeAttribute otherwise
restored(value) == IF value # <<>> THEN Attr(value) ELSE NoAttr

\* a reset that leaves the target and rel a reveal has set
resetContactLink_keepsTarget(a) ==
    IF ~a.captured THEN a
    ELSE [a EXCEPT !.text = orStr(a.defaultText, <<"Contact">>),
                   !.href = Attr(orStr(a.defaultHref, <<"#">>)),
                   !.title = restored(a.defaultTitle),
                   !.revealed = FALSE,
                   !.copied = FALSE]

\* lines 36-65
resetContactLink(a) ==
    IF ~a.captured THEN a
    ELSE [a EXCEPT !.text = orStr(a.defaultText, <<"Contact">>),
                   !.href = Attr(orStr(a.defaultHref, <<"#">>)),
                   !.title = restored(a.defaultTitle),
                   !.target = restored(a.defaultTarget),
                   !.rel = restored(a.defaultRel),
                   !.revealed = FALSE,
                   !.copied = FALSE]

\* lines 71-109: the anchor revealed, and the href returned (or null)
revealContact(a, mode) ==
    IF a.revealed
    THEN [a |-> a, finalHref |-> IF a.href.has THEN restored(a.href.v) ELSE NoAttr]
    ELSE IF mode = "email"
    THEN LET email == a.data.email
             finalHref == buildMailto(email, a.data.subject, a.data.body)
         IN  [a |-> [a EXCEPT !.text = orStr(email, <<"Email">>),
                              !.href = Attr(finalHref),
                              !.target = NoAttr,
                              !.title = Attr(email),
                              !.revealed = TRUE],
              finalHref |-> Attr(finalHref)]
    ELSE IF mode = "discord"
    THEN LET handle == orStr(a.data.discord, <<"Discord">>)
             url == a.data.discordUrl
         IN  IF url # <<>>
             THEN [a |-> [a EXCEPT !.text = handle,
                                   !.href = Attr(url),
                                   !.target = Attr(<<"_blank">>),
                                   !.rel = Attr(<<"noopener">>),
                                   !.revealed = TRUE],
                   finalHref |-> Attr(url)]
             ELSE [a |-> [a EXCEPT !.text = handle,
                                   !.href = Attr(<<"#">>),
                                   !.title = Attr(handle),
                                   !.revealed = TRUE],
                   finalHref |-> NoAttr]
    ELSE [a |-> [a EXCEPT !.revealed = TRUE], finalHref |-> NoAttr]

\* a resetOthers that stops at the current anchor
resetOthers_untilCurrent(anchors, current) ==
    [i \in 1..Len(anchors) |->
        IF i < current THEN resetContactLink(anchors[i]) ELSE anchors[i]]

\* lines 151-155
resetOthers(anchors, current) ==
    [i \in 1..Len(anchors) |->
        IF i # current THEN resetContactLink(anchors[i]) ELSE anchors[i]]

\* String.prototype.toLowerCase, on the modes used
toLowerCase(m) == IF m = "Email" THEN "email" ELSE m

\* lines 162-167
initContactLink(a) ==
    [captureInitialState(a) EXCEPT !.mode = toLowerCase(a.data.mode)]

\* a click listener that reveals without resetting the other anchors
contactClick_noReset(c, i) ==
    IF c.anchors[i].revealed
    THEN [c EXCEPT !.last = [op |-> "click", id |-> i, prevented |-> FALSE],
                   !.clicks = @ + 1]
    ELSE LET r == revealContact(c.anchors[i], c.anchors[i].mode)
         IN  [c EXCEPT !.anchors = [c.anchors EXCEPT ![i] = r.a],
                       !.activations = Append(@, [id |-> i,
                                                  finalHref |-> r.finalHref]),
                       !.last = [op |-> "click", id |-> i, prevented |-> TRUE],
                       !.clicks = @ + 1]

\* the click listener of anchor i, lines 169-182
contactClick(c, i) ==
    IF c.anchors[i].revealed
    THEN [c EXCEPT !.last = [op |-> "click", id |-> i, prevented |-> FALSE],
                   !.clicks = @ + 1]
    ELSE LET anchors == resetOthers(c.anchors, i)
             r == revealContact(anchors[i], anchors[i].mode)
         IN  [c EXCEPT !.anchors = [anchors EXCEPT ![i] = r.a],
                       !.activations = Append(@, [id |-> i,
                                                  finalHref |-> r.finalHref]),
                       !.last = [op |-> "click", id |-> i, prevented |-> TRUE],
                       !.clicks = @ + 1]

\* lines 116-131, up to the await: what the call does with finalHref
activateContact(c, act) ==
    LET a == c.anchors[act.id]
        done(effect) == [op |-> "activate", id |-> act.id, effect |-> effect,
                         href |-> act.finalHref]
    IN  IF a.mode = "email"
        THEN [c EXCEPT !.last = done("location.href")]
        ELSE IF a.mode = "discord"
        THEN IF act.finalHref.has /\ act.finalHref.v # <<>>
             THEN [c EXCEPT !.last = done("window.open")]
             ELSE IF c.clipboard /\ a.data.discord # <<>>
             THEN [c EXCEPT !.writes = Append(@, [id |-> act.id,
                                                  text |-> a.data.discord]),
                            !.last = done("writeText")]
             ELSE [c EXCEPT !.last = done("none")]
        ELSE [c EXCEPT !.last = done("none")]

\* the callback of the 30 ms timer, line 181
activationFired(c) ==
    activateContact([c EXCEPT !.activations = Tail(@)], Head(c.activations))

\* lines 130-140: writeText has settled; a rejection is caught silently
writeSettled(c, k, ok) ==
    LET w == c.writes[k]
        c1 == [c EXCEPT !.writes = SubSeq(@, 1, k - 1)
                                     \o SubSeq(@, k + 1, Len(@)),
                        !.last = [op |-> "written", id |-> w.id, ok |-> ok]]
    IN  IF ok
        THEN [c1 EXCEPT !.anchors[w.id].copied = TRUE,
                        !.anchors[w.id].text = w.text \o <<" (copied)">>,
                        !.copyTimers = Append(@, w)]
        ELSE c1

\* the callback of the 1500 ms timer, lines 134-139
copyTimerFired(c) ==
    LET w == Head(c.copyTimers)
        c1 == [c EXCEPT !.copyTimers = Tail(@),
                        !.last = [op |-> "uncopy", id |-> w.id]]
    IN  IF c.anchors[w.id].copied
        THEN [c1 EXCEPT !.anchors[w.id].text = w.text,
                        !.anchors[w.id].copied = FALSE]
        ELSE c1

\* initContactLinks(selector), lines 188-190, on a page with these anchors
initContactLinks(markups, datas, clipboard) ==
    [ClIdle EXCEPT
        !.anchors = [i \in 1..Len(markups) |->
                        initContactLink(newAnchor(markups[i], datas[i]))],
        !.orig = markups,
        !.clipboard = clipboard]

NoContactLinks ==
    /\ TMIdle /\ ctor = Constructed /\ click = NoClick /\ bm = BmIdle
    /\ cm = CmIdle /\ sk = SkIdle /\ mt = MtIdle

\* pages of up to MaxAnchors contact links of every kind
ClInit ==
    /\ NoContactLinks
    /\ \E n \in 1..MaxAnchors, clipboard \in BOOLEAN :
        \E datas \in [1..n -> Configs] :
            cl = initContactLinks([i \in 1..n |-> PlainMarkup], datas, clipboard)

ContactClick ==
    /\ cl.clicks < MaxContactClicks
    /\ \E i \in 1..Len(cl.anchors) : cl' = contactClick(cl, i)
    /\ UNCHANGED <<tmVars, ctor, click, bm, cm, sk, mt>>

ActivationFire ==
    /\ cl.activations # <<>>
    /\ cl' = activationFired(cl)
    /\ UNCHANGED <<tmVars, ctor, click, bm, cm, sk, mt>>

WriteSettle ==
    /\ \E k \in 1..Len(cl.writes), ok \in BOOLEAN : cl' = writeSettled(cl, k, ok)
    /\ UNCHANGED <<tmVars, ctor, click, bm, cm, sk, mt>>

CopyTimerFire ==
    /\ cl.copyTimers # <<>>
    /\ cl' = copyTimerFired(cl)
    /\ UNCHANGED <<tmVars, ctor, click, bm, cm, sk, mt>>

ClNext ==
    \/ ContactClick
    \/ ActivationFire
    \/ WriteSettle
    \/ CopyTimerFire

ClSpec == ClInit /\ [][ClNext]_vars

\* a page whose first contact link has any markup, next to a plain one
RestoreInit ==
    /\ NoContactLinks
    /\ \E m \in Markups, d \in Configs, clipboard \in BOOLEAN :
          cl = initContactLinks(<<m, PlainMarkup>>,
                                <<d, [Data0 EXCEPT !.mode = "email",
                                                   !.email = <<"a@b">>]>>,
                                clipboard)

RestoreSpec == RestoreInit /\ [][ClNext]_vars

\* what the page shows of an anchor
Shown(a) ==
    [text |-> a.text, href |-> a.href, title |-> a.title,
     target |-> a.target, rel |-> a.rel]

\* anchor i is reset in this step, having been revealed
ResetNow(i) == cl.anchors[i].revealed /\ ~cl'.anchors[i].revealed

\* C21 as stated: a revealed anchor that is reset has exactly the text, href,
\* title, target and rel it had when initContactLink captured it, an absent
\* attribute being absent again, and neither data-revealed nor data-copied.
C21_ResetRestoresExactly ==
    [][\A i \in 1..Len(cl.anchors) :
          ResetNow(i) =>
              /\ Shown(cl'.anchors[i]) = cl.orig[i]
              /\ ~cl'.anchors[i].copied]_vars

\* an attribute as the reset leaves it: kept if it had a value, absent if not
KeptOrAbsent(attr) == IF attr.has /\ attr.v # <<>> THEN attr ELSE NoAttr

\* C21, amended: a revealed anchor that is reset has the href, title, target
\* and rel it had when initContactLink captured it, except that a title,
\* target or rel that was absent or empty is absent and an href that was
\* absent or empty is "#"; its text is the captured text without its
\* surrounding whitespace, or "Contact" if that is empty; data-revealed and
\* data-copied are cleared.
C21_ResetRestoresDefaults ==
    [][\A i \in 1..Len(cl.anchors) :
          ResetNow(i) =>
              LET now == cl'.anchors[i]
                  was == cl.orig[i]
              IN  /\ \E t \in {now.text, <<>>} :
                        /\ IsTrimOf(t, was.text)
                        /\ now.text = IF t = <<>> THEN <<"Contact">> ELSE t
                  /\ now.href = IF was.href.has /\ was.href.v # <<>>
                                THEN was.href ELSE Attr(<<"#">>)
                  /\ now.title = KeptOrAbsent(was.title)
                  /\ now.target = KeptOrAbsent(was.target)
                  /\ now.rel = KeptOrAbsent(was.rel)
                  /\ ~now.revealed /\ ~now.copied]_vars

\* the first anchor, with padded text, no href and a target of its own, was
\* revealed as a Discord link and has been reset by the click on the second
C21_Witness ==
    /\ cl.last = [op |-> "click", id |-> 2, prevented |-> TRUE]
    /\ \E k \in 1..Len(cl.activations) : cl.activations[k].id = 1
    /\ cl.anchors[1].data.discordUrl # <<>>
    /\ ~cl.anchors[1].revealed
    /\ cl.orig[1].text = <<" ", "c", " ">> /\ ~cl.orig[1].href.has
    /\ cl.orig[1].target.has /\ cl.anchors[1].target = cl.orig[1].target

\* the step is a click on a contact link
ClickNow == cl'.clicks = cl.clicks + 1

\* C22: a click on an unrevealed managed anchor is intercepted (default
\* prevented), leaves every other managed anchor reset and this one revealed,
\* and does not activate it: the activation is queued and is run by a later
\* step, for this anchor and with the href the reveal returned.  A click on a
\* revealed anchor is not intercepted and changes no anchor.
C22_RevealThenActivate ==
    [][/\ ClickNow =>
            LET i == cl'.last.id
            IN  IF ~cl.anchors[i].revealed
                THEN /\ cl'.last.op = "click" /\ cl'.last.prevented
                     /\ \A j \in 1..Len(cl.anchors) :
                           j # i => /\ ~cl'.anchors[j].revealed
                                    /\ ~cl'.anchors[j].copied
                                    /\ Shown(cl'.anchors[j]) = cl.orig[j]
                     /\ cl'.anchors[i].revealed
                     /\ cl'.activations # <<>>
                     /\ LET act == cl'.activations[Len(cl'.activations)]
                        IN  /\ act.id = i
                            /\ act.finalHref.has =>
                                  cl'.anchors[i].href = act.finalHref
                            /\ cl'.activations = Append(cl.activations, act)
                     /\ cl'.writes = cl.writes
                     /\ cl'.copyTimers = cl.copyTimers
                ELSE /\ cl'.last.op = "click" /\ ~cl'.last.prevented
                     /\ cl'.anchors = cl.anchors
                     /\ cl'.activations = cl.activations
                     /\ cl'.writes = cl.writes
                     /\ cl'.copyTimers = cl.copyTimers
       /\ (cl' # cl /\ cl'.last.op = "activate") =>
            /\ cl.activations # <<>>
            /\ cl'.last.id = Head(cl.activations).id
            /\ cl'.last.href = Head(cl.activations).finalHref
            /\ cl'.activations = Tail(cl.activations)]_vars

\* the second anchor was clicked while the first was revealed, and has then
\* been activated by opening its Discord URL
C22_Witness ==
    /\ cl.last.op = "activate" /\ cl.last.id = 2
    /\ cl.last.effect = "window.open"
    /\ cl.clicks = 2
    /\ cl.anchors[2].revealed /\ ~cl.anchors[1].revealed
    /\ cl.anchors[1].mode = "email"

\* C30: at most one managed anchor carries data-revealed='1'.
C30_OneRevealed ==
    Cardinality({i \in 1..Len(cl.anchors) : cl.anchors[i].revealed}) <= 1

\* the second anchor is the revealed one, after the first had been revealed
\* and while the first's activation is still to come
C30_Witness ==
    /\ Len(cl.anchors) = 2 /\ cl.clicks = 2
    /\ cl.anchors[2].revealed /\ ~cl.anchors[1].revealed
    /\ Len(cl.activations) = 2 /\ cl.activations[1].id = 1

\* the step runs a pending activation (the 30 ms timer's callback)
ActivationNow == Len(cl'.activations) < Len(cl.activations)

\* the step settles a pending clipboard write
WriteSettledNow == Len(cl'.writes) < Len(cl.writes) /\ ~ActivationNow

\* C31: activation acts only on an anchor that is still revealed.  An
\* activation that finds its anchor reset navigates nowhere, opens nothing and
\* copies nothing; a clipboard write that settles for an anchor reset in the
\* meantime does not touch the anchor; and an anchor without data-revealed
\* always shows its default text.
C31_ActivationNeedsRevealed ==
    [][/\ ActivationNow =>
            LET i == Head(cl.activations).id
            IN  ~cl.anchors[i].revealed =>
                    /\ cl'.last.effect = "none"
                    /\ cl'.anchors = cl.anchors
                    /\ cl'.writes = cl.writes
       /\ WriteSettledNow =>
            \A i \in 1..Len(cl.anchors) :
                ~cl.anchors[i].revealed => cl'.anchors[i] = cl.anchors[i]
       /\ \A i \in 1..Len(cl.anchors) :
            ~cl'.anchors[i].revealed =>
                cl'.anchors[i].text
                    = orStr(cl'.anchors[i].defaultText, <<"Contact">>)]_vars

\* ------------------------------- the service key: auth.html, file manager
\* the most Save clicks and fetch calls in one run
MaxKeyOps == 3

\* what is typed into the key input
KeyInputs == StringsUpTo(MaxChars)

\* a headers object: the headers it names
NoHeaders == [xServiceKey |-> NoAttr, accept |-> NoAttr]

\* The init argument of a fetch call: none, one without headers (as the
\* file manager passes), one with headers of its own.
Inits ==
    {[given |-> FALSE, headers |-> FALSE, own |-> NoHeaders],
     [given |-> TRUE, headers |-> FALSE, own |-> NoHeaders],
     [given |-> TRUE, headers |-> TRUE,
      own |-> [NoHeaders EXCEPT !.accept = Attr(<<"j">>)]],
     [given |-> TRUE, headers |-> TRUE,
      own |-> [NoHeaders EXCEPT !.xServiceKey = Attr(<<"o">>)]]}

\* a wrapper that adds the key only to an init without headers
fetch_unlessHeaders(c, init) ==
    LET headers == IF init.headers THEN init.own ELSE NoHeaders
        key == c.key
    IN  [c EXCEPT !.request =
                    [made |-> TRUE, init |-> init,
                     headers |-> IF key.has /\ key.v # <<>> /\ ~init.headers
                                 THEN [headers EXCEPT !.xServiceKey = key]
                                 ELSE headers],
                  !.last = "fetch", !.ops = @ + 1]

\* window.fetch as both pages replace it: auth.html lines 41-50,
\* componentManager.js lines 345-354
fetch(c, init) ==
    LET headers == IF init.headers THEN init.own ELSE NoHeaders
        key == c.key
    IN  [c EXCEPT !.request =
                    [made |-> TRUE, init |-> init,
                     headers |-> IF key.has /\ key.v # <<>>
                                 THEN [headers EXCEPT !.xServiceKey = key]
                                 ELSE headers],
                  !.last = "fetch", !.ops = @ + 1]

\* btn.onclick of auth.html, lines 60-70, with value in the input
saveBtn_onclick(c, value) ==
    LET v == trim(value)
        c1 == [c EXCEPT !.input = value, !.last = "save", !.ops = @ + 1]
    IN  IF v = <<>>
        THEN [c1 EXCEPT !.status = "Key cannot be empty."]
        ELSE [c1 EXCEPT !.key = Attr(v), !.status = "Saved!"]

SkInit ==
    /\ TMIdle /\ ctor = Constructed /\ click = NoClick /\ bm = BmIdle
    /\ cm = CmIdle /\ cl = ClIdle /\ mt = MtIdle
    /\ sk = SkIdle

\* the user types a value into the key input and clicks Save
SaveKey ==
    /\ sk.ops < MaxKeyOps
    /\ \E value \in KeyInputs : sk' = saveBtn_onclick(sk, value)
    /\ UNCHANGED <<tmVars, ctor, click, bm, cm, cl, mt>>

\* a page calls window.fetch
Fetch ==
    /\ sk.ops < MaxKeyOps
    /\ \E init \in Inits : sk' = fetch(sk, init)
    /\ UNCHANGED <<tmVars, ctor, click, bm, cm, cl, mt>>

SkNext ==
    \/ SaveKey
    \/ Fetch

SkSpec == SkInit /\ [][SkNext]_vars

Blank(v) == \A i \in 1..Len(v) : v[i] = " "

\* C23: a request made through window.fetch carries an x-service-key header
\* equal to the key stored at the time of the call, and no such header of the
\* wrapper's when no key is stored; the key the auth page stores is never
\* empty and has no surrounding whitespace, and saving an empty or
\* whitespace-only input leaves the stored key as it was.
C23_KeyHeaderFollowsStore ==
    /\ [][sk'.ops = sk.ops + 1 =>
            IF sk'.last = "fetch"
            THEN /\ sk'.request.made
                 /\ sk'.request.headers.xServiceKey =
                        IF sk.key.has THEN sk.key
                        ELSE sk'.request.init.own.xServiceKey
                 /\ sk'.request.headers.accept = sk'.request.init.own.accept
                 /\ sk'.key = sk.key
            ELSE IF Blank(sk'.input)
            THEN sk'.key = sk.key
            ELSE sk'.key.has /\ IsTrimOf(sk'.key.v, sk'.input)]_vars
    /\ [](sk.key.has =>
            /\ sk.key.v # <<>>
            /\ sk.key.v[1] # " " /\ sk.key.v[Len(sk.key.v)] # " ")

\* a key saved from a padded input has replaced the header of a request that
\* came with an x-service-key of its own
C23_Witness ==
    /\ sk.last = "fetch" /\ sk.key.has
    /\ sk.input # sk.key.v /\ ~Blank(sk.input)
    /\ sk.request.init.own.xServiceKey.has
    /\ sk.request.headers.xServiceKey = sk.key

\* ------------------------------------------------------ the Hold Gate
\* C24: the Hold Gate starts the uncover at most once: a releaseInitialHold
\* after the first release changes nothing, a release disarms the failsafe
\* timer, and however release calls and the timer interleave,
\* releaseInitialHold has called _animateOutThenHide exactly once when the
\* gate is open and never while it is held.
C24_GateOpensOnce ==
    /\ [](hist.gateOuts = IF hist.initialHold /\ ~_initialHeld THEN 1 ELSE 0)
    /\ [](~_initialHeld => ~_initialHoldTimer)
    /\ [][(ReleaseInitialHold /\ ~_initialHeld) =>
             UNCHANGED <<_isAnimating, _initialHeld, _initialHoldTimer, style,
                         anims, marker, timers, raf, cancelEvents, navLog,
                         nCalls>>]_vars
    /\ [][((ReleaseInitialHold \/ HoldTimerFire) /\ _initialHeld) =>
             /\ ~_initialHeld' /\ ~_initialHoldTimer'
             /\ hist'.gateOuts = 1]_vars

\* the gate was opened and the uncover animation it started is running
C24_Witness ==
    /\ hist.initialHold /\ ~_initialHeld /\ ~_initialHoldTimer
    /\ hist.gateOuts = 1 /\ ~reduceMotion
    /\ anims # <<>> /\ anims[Len(anims)].kind = "out"
    /\ anims[Len(anims)].phase = "running"

\* C25: while the Hold Gate is held (constructed with initialHold, neither
\* released nor timed out), the overlay is at B, visible, covering the page.
C25_HeldStaysCovered ==
    (hist.initialHold /\ _initialHeld) => Covering(Cur)

\* a transitionTo call that has reached B waits for its buffer timer
BufferWaitAtB ==
    /\ Alive
    /\ \E i \in 1..Len(timers) : timers[i].k = "cover" /\ timers[i].reached

\* C26: with bufferTime > 0, a further transitionTo that arrives while a call
\* that has reached B waits for its buffer timer leaves the overlay at B,
\* visible, and starts no cover animation.
C26_CoveredThroughBuffer ==
    [][(BufferWaitAtB /\ Covering(Cur) /\ nCalls' = nCalls + 1) =>
          /\ Covering(Cur')
          /\ \A i \in 1..Len(anims') :
                ~(anims'[i].kind = "in" /\ anims'[i].phase # "finished")]_vars

\* C27: a transitionTo whose cover animation was cancelled by pagehide or by
\* pageshow does not set the marker and does not call
\* window.location.assign: when its 'cancel' event is delivered, the call
\* neither navigates nor starts the buffer wait that ends in the navigation.
C27_LifecycleCancelStops ==
    [][CancelFrame =>
          \A i \in 1..Len(cancelEvents) :
              (cancelEvents[i].k = "cover" /\ cancelEvents[i].by = "lifecycle")
                => /\ \A j \in 1..Len(navLog') :
                         navLog'[j].call # cancelEvents[i].call
                   /\ \A j \in 1..Len(timers') :
                         ~(/\ timers'[j].k = "cover"
                           /\ timers'[j].call = cancelEvents[i].call)
                   /\ marker' = marker]_vars

\* C29: handleLinkClick returns false exactly when it intercepted the click
\* (called preventDefault and handed the link to transitionTo), and true
\* exactly when it left the click to the browser.
C29_ReturnsFalseIffIntercepted ==
    click.returned <=> ~click.prevented

\* ----------------------- the earlier revision: scripts/transitionManager.js
\* Its handlers work on the same record; _animateInToCover, _parkAtAAndHide,
\* _showAtB, _hideAtC, the popstate, pagehide and visibilitychange handlers
\* are the same code in both revisions.

\* lines 233-265: no animation is cancelled before the overlay is put at B
draft_animateOutThenHide(s, rm) ==
    IF _shouldReduceMotion(s)
    THEN outDone(_requestPark(_hideAtC(s)), rm)
    ELSE LET s1 == _showAtB(s)
         IN  IF s.buffer > 0
             THEN [s1 EXCEPT !.timers = Append(@, [k |-> "out", call |-> 0,
                                                   rm |-> rm, reached |-> FALSE])]
             ELSE startOut(s1, rm)

\* a transitionTo that asks for the motion preference first
draft_transitionTo_reducedFirst(s, call) ==
    LET s0 == [s EXCEPT !.calls = call]
    IN  IF _shouldReduceMotion(s0) THEN assign(s0, call, FALSE)
        ELSE IF s0.isAnimating THEN s0
        ELSE _animateInToCover([s0 EXCEPT !.isAnimating = TRUE], call)

\* lines 63-73, up to the await
draft_transitionTo(s, call) ==
    LET s0 == [s EXCEPT !.calls = call]
    IN  IF s0.isAnimating THEN s0
        ELSE IF _shouldReduceMotion(s0) THEN assign(s0, call, FALSE)
        ELSE _animateInToCover([s0 EXCEPT !.isAnimating = TRUE], call)

\* lines 75-80: mark, go, and the finally
draft_markAndGo(s, call) ==
    [markAndGo(s, call, TRUE) EXCEPT !.isAnimating = FALSE]

\* lines 73-80, after the await: a cancelled animation rejects, the finally
\* runs and the rejection leaves transitionTo, which nothing awaits
draft_coverSettled(s, cont, canceled) ==
    IF canceled
    THEN [s EXCEPT !.isAnimating = FALSE, !.hist.unhandled = TRUE]
    ELSE IF s.buffer > 0
    THEN [s EXCEPT !.timers = Append(@, [k |-> "cover", call |-> cont.call,
                                         rm |-> FALSE, reached |-> TRUE])]
    ELSE draft_markAndGo(s, cont.call)

\* lines 84-92
draft_releaseInitialHold(s) ==
    IF ~s.initialHeld THEN s
    ELSE draft_animateOutThenHide([s EXCEPT !.initialHeld = FALSE,
                                            !.initialHoldTimer = FALSE,
                                            !.hist.gateOuts = @ + 1], FALSE)

\* lines 52-54
draft_holdTimerFired(s) ==
    LET s1 == [s EXCEPT !.initialHoldTimer = FALSE]
    IN  IF s1.initialHeld THEN draft_releaseInitialHold(s1) ELSE s1

\* lines 137-146
draft_pageshow(s, persisted) ==
    LET pending == s.marker
    IN  IF persisted \/ pending THEN draft_animateOutThenHide(s, TRUE)
        ELSE IF ~s.initialHeld THEN _parkAtAAndHide(s) ELSE s

\* the callback of a _wait(bufferTime) timer
draft_timerFired(s) ==
    LET t == Head(s.timers)
        s1 == [s EXCEPT !.timers = Tail(@)]
    IN  IF t.k = "cover" THEN draft_markAndGo(s1, t.call)
        ELSE startOut(s1, t.rm)

draft_settle(s, e) ==
    IF e.cont.k = "cover" THEN draft_coverSettled(s, e.cont, e.canceled)
    ELSE IF e.cont.k = "out" THEN outSettled(s, e.cont)
    ELSE s

RECURSIVE draft_dispatch(_, _)
draft_dispatch(s, events) ==
    IF events = <<>> THEN s
    ELSE draft_dispatch(draft_settle(s, Head(events)), Tail(events))

\* one rendering frame
draft_frame(s, n) ==
    LET finishing == SubSeq(Started(s.anims), 1, n)
        events == EventsOf(s.cancelEvents, TRUE)
                    \o EventsOf(ContsOf(finishing), FALSE)
        s1 == [s EXCEPT !.anims = Relevant(finishFirst(@, n)),
                        !.cancelEvents = <<>>]
    IN  runAnimationFrameCallbacks(draft_dispatch(s1, events))

\* lines 31-59: the overlay is left where the page's markup has it
draft_constructor(effect, buffer, reduce, initialHold, marker0) ==
    LET s0 == [effect |-> effect, buffer |-> buffer, reduce |-> reduce,
               isAnimating |-> FALSE, initialHeld |-> initialHold,
               initialHoldTimer |-> FALSE, style |-> BlankStyle,
               anims |-> <<>>, marker |-> marker0, timers |-> <<>>,
               raf |-> FALSE, cancelEvents |-> <<>>, navLog |-> <<>>,
               hist |-> Hist0(initialHold, marker0), calls |-> 0]
        s1 == _onResize(_setupOverlayStyles(s0))
    IN  [s1 EXCEPT !.initialHoldTimer = s1.initialHeld]

DraftInit ==
    \E effect \in {"slide", "fade"}, buffer \in {0, 1},
       reduce \in BOOLEAN, initialHold \in BOOLEAN, marker0 \in BOOLEAN :
        LET s == draft_constructor(effect, buffer, reduce, initialHold, marker0)
        IN  /\ transitionEffect = effect
            /\ bufferTime = buffer
            /\ reduceMotion = reduce
            /\ _isAnimating = s.isAnimating
            /\ _initialHeld = s.initialHeld
            /\ _initialHoldTimer = s.initialHoldTimer
            /\ style = s.style
            /\ anims = s.anims
            /\ marker = s.marker
            /\ timers = s.timers
            /\ raf = s.raf
            /\ cancelEvents = s.cancelEvents
            /\ navLog = s.navLog
            /\ hist = s.hist
            /\ microtask = ~initialHold
            /\ page = "loading"
            /\ nCalls = 0 /\ nEvents = 0
            /\ OthersIdle

DraftConstructorMicrotask ==
    /\ microtask
    /\ Commit(draft_animateOutThenHide(Cur, FALSE))
    /\ microtask' = FALSE
    /\ UNCHANGED <<page, nEvents>>

DraftTransitionTo ==
    /\ Alive /\ Budget
    /\ Commit(draft_transitionTo(Fresh(Cur), nCalls + 1))
    /\ UNCHANGED <<microtask, page, nEvents>>

DraftReleaseInitialHold ==
    /\ Alive /\ hist.initialHold
    /\ Commit(draft_releaseInitialHold(Fresh(Cur)))
    /\ UNCHANGED envVars

DraftHoldTimerFire ==
    /\ Alive /\ _initialHoldTimer
    /\ Commit(draft_holdTimerFired(Cur))
    /\ UNCHANGED envVars

DraftTimerFire ==
    /\ Alive /\ timers # <<>>
    /\ Commit(draft_timerFired(Cur))
    /\ UNCHANGED envVars

DraftFrame ==
    /\ Alive
    /\ \E n \in 0..Len(Started(anims)) :
        /\ n > 0 \/ cancelEvents # <<>> \/ raf \/ Running(anims) # Started(anims)
        /\ Commit(draft_frame(Cur, n))
    /\ UNCHANGED envVars

DraftPageshow ==
    /\ page = "loading" /\ ~microtask
    /\ Commit(draft_pageshow(Fresh(Cur), FALSE))
    /\ page' = "shown"
    /\ UNCHANGED <<microtask, nEvents>>

DraftRestore ==
    /\ page = "cached"
    /\ \E m \in BOOLEAN :
          Commit(draft_pageshow([Fresh(Cur) EXCEPT !.marker = m], TRUE))
    /\ page' = "shown"
    /\ UNCHANGED <<microtask, nEvents>>

DraftNext ==
    \/ DraftConstructorMicrotask
    \/ DraftTransitionTo
    \/ DraftReleaseInitialHold
    \/ DraftHoldTimerFire
    \/ DraftTimerFire
    \/ DraftFrame
    \/ DraftPageshow
    \/ Pagehide
    \/ DraftRestore
    \/ Popstate
    \/ VisibilityChange
    \/ MediaChange

DraftSpec == DraftInit /\ [][DraftNext]_vars

\* C28: in the transitionManager.js revision a transitionTo call made while
\* a previous one is animating is dropped: it starts no animation, timer or
\* frame callback, leaves the overlay style and the marker alone and does not
\* navigate, also under reduced motion; and a navigation made after a cover
\* animation is the one of the call that started that animation, with the
\* overlay having reached B and the marker set.
C28_AnimatingCallDropped ==
    [][/\ (nCalls' = nCalls + 1 /\ _isAnimating) =>
             UNCHANGED <<_isAnimating, _initialHeld, _initialHoldTimer, style,
                         anims, marker, timers, raf, cancelEvents, navLog>>
       /\ (nCalls' = nCalls /\ navLog' # navLog /\ navLog' # <<>>) =>
             LET e == navLog'[Len(navLog')]
             IN  /\ navLog' = Append(navLog, e)
                 /\ e.marker /\ e.reached /\ _isAnimating
                 /\ \/ timers # <<>> /\ Head(timers).k = "cover"
                                     /\ Head(timers).call = e.call
                    \/ \E i \in 1..Len(anims) :
                          /\ anims[i].kind = "in" /\ anims[i].phase = "running"
                          /\ anims[i].cont.call = e.call]_vars

\* the first call has navigated to its own url after a second call was
\* dropped while the first was animating
C28_Witness ==
    /\ Len(navLog) = 1 /\ nCalls = 2
    /\ navLog[1].call = 1 /\ navLog[1].calls = 2
    /\ navLog[1].reached /\ navLog[1].marker /\ navLog[1].covering

\* ------------------------------------------- ComponentManager.mount
\* the most mount calls on one page
MaxMounts == 2

\* The targets passed: the Element itself, a selector for it, a selector that
\* matches nothing, and a value that is neither a string nor an Element.
Targets == {"element", "#el", "#missing", "null"}

\* the component names passed: none, or a name
Names == {"", "x"}

\* the modes passed: the six of the switch and one it does not know
Modes == {"replace", "outerReplace", "append", "prepend", "before", "after",
          "bogus"}

\* the place of the target element among the children of its parent
Self == [self |-> TRUE, html |-> "", by |-> 0, style |-> NoStyle]

\* the node a component's html makes, and the mount call that fetched it
\* (by 0: the page's own markup)
Leaf(html, by) == [self |-> FALSE, html |-> html, by |-> by, style |-> NoStyle]

\* the element is in the document (el.parentNode is not null)
Attached(m) == \E i \in 1..Len(m.sibs) : m.sibs[i].self

\* where
SelfAt(m) == CHOOSE i \in 1..Len(m.sibs) : m.sibs[i].self

\* lines 146-154: whether the target resolves (it throws otherwise)
_resolveTarget(m, target) ==
    IF target = "element" THEN TRUE
    ELSE IF target \in {"#el", "#missing"}
    THEN target = "#el" /\ Attached(m)
    ELSE FALSE

\* lines 185-190
_prepareFade(st) ==
    [opacity |-> "0", willChange |-> "opacity", transition |-> "opacity"]

\* line 202, in the animation frame
fadeTo1(st) == [st EXCEPT !.opacity = "1"]

\* lines 205-209: transitionend, or the timeout of line 212
cleanup(st) == [st EXCEPT !.willChange = "", !.transition = ""]

\* the style a step of the fade leaves
restyle(st, step) ==
    CASE step = "prepare" -> _prepareFade(st)
      [] step = "frame" -> fadeTo1(st)
      [] step = "done" -> cleanup(st)

\* what the nodes of a fade are: the target element, or the node of a call
ElRef == [el |-> TRUE, by |-> 0]

NodeRef(k) == [el |-> FALSE, by |-> k]

\* a style change on the node of ref, wherever it is now (a node that
\* innerHTML has discarded is no longer part of the page)
styled(m, ref, step) ==
    IF ref.el
    THEN [m EXCEPT !.el.style = restyle(@, step)]
    ELSE LET on(n) == IF ~n.self /\ n.by = ref.by
                      THEN [n EXCEPT !.style = restyle(@, step)] ELSE n
         IN  [m EXCEPT !.el.kids = [i \in 1..Len(@) |-> on(@[i])],
                       !.sibs = [i \in 1..Len(@) |-> on(@[i])]]

\* lines 192-215, up to the requestAnimationFrame call
_runFade(m, ref) ==
    [styled(m, ref, "prepare") EXCEPT !.rafs = Append(@, ref)]

\* the sequence with x put in before position i
insertAt(seq, i, x) == SubSeq(seq, 1, i - 1) \o <<x>> \o SubSeq(seq, i, Len(seq))

\* the call has settled
settled(m, k, state, error) ==
    [m EXCEPT !.calls[k].state = state, !.calls[k].error = error, !.last = k]

\* a replace mode that prepares the fade before the html is there
mount_fadeFirst(m, target, name, mode) ==
    LET k == Len(m.calls) + 1
        call == [target |-> target, name |-> name, mode |-> mode,
                 state |-> "fetching", error |-> ""]
        m1 == [m EXCEPT !.calls = Append(@, call), !.last = k]
    IN  IF ~_resolveTarget(m, target) THEN settled(m1, k, "rejected", "target")
        ELSE LET m2 == IF m.fadeIn /\ mode = "replace"
                       THEN styled(m1, ElRef, "prepare") ELSE m1
             IN  IF name = "" THEN settled(m2, k, "rejected", "name")
                 ELSE m2

\* mount, lines 51-53, up to the await of the fetch: _resolveTarget throws
\* for a target that does not resolve, fetchComponent for a missing name
mount(m, target, name, mode) ==
    LET k == Len(m.calls) + 1
        call == [target |-> target, name |-> name, mode |-> mode,
                 state |-> "fetching", error |-> ""]
        m1 == [m EXCEPT !.calls = Append(@, call), !.last = k]
    IN  IF ~_resolveTarget(m, target) THEN settled(m1, k, "rejected", "target")
        ELSE IF name = "" THEN settled(m1, k, "rejected", "name")
        ELSE m1

\* the fragment's node is in place: line 68 and its like
inserted(m, k) ==
    LET m1 == IF m.fadeIn THEN _runFade(m, NodeRef(k)) ELSE m
    IN  settled(m1, k, "fulfilled", "")

\* mount, lines 43-46 and 53-110: the fetch of call k has completed, with a
\* response that is ok or not
mounted(m, k, ok) ==
    LET c == m.calls[k]
        node == Leaf(c.name, k)
    IN  IF ~ok THEN settled(m, k, "rejected", "http")
        ELSE CASE c.mode = "replace" ->
                    LET m1 == IF m.fadeIn THEN styled(m, ElRef, "prepare")
                              ELSE m
                        m2 == [m1 EXCEPT !.el.kids = <<node>>]
                        m3 == IF m.fadeIn THEN _runFade(m2, ElRef) ELSE m2
                    IN  settled(m3, k, "fulfilled", "")
               [] c.mode = "outerReplace" ->
                    inserted(IF Attached(m)
                             THEN [m EXCEPT !.sibs[SelfAt(m)] = node]
                             ELSE m, k)
               [] c.mode = "append" ->
                    inserted([m EXCEPT !.el.kids = Append(@, node)], k)
               [] c.mode = "prepend" ->
                    inserted([m EXCEPT !.el.kids = <<node>> \o @], k)
               [] c.mode = "before" ->
                    inserted(IF Attached(m)
                             THEN [m EXCEPT !.sibs = insertAt(@, SelfAt(m), node)]
                             ELSE m, k)
               [] c.mode = "after" ->
                    inserted(IF Attached(m)
                             THEN [m EXCEPT
                                     !.sibs = insertAt(@, SelfAt(m) + 1, node)]
                             ELSE m, k)
               [] OTHER -> settled(m, k, "rejected", "mode")

\* the requestAnimationFrame callback of _runFade, lines 201-215
fadeFrame(m) ==
    LET ref == Head(m.rafs)
    IN  [styled(m, ref, "frame") EXCEPT !.rafs = Tail(@),
                                        !.cleanups = Append(@, ref),
                                        !.last = 0]

\* transitionend or the timeout, whichever is first, for the oldest fade
fadeDone(m) ==
    [styled(m, Head(m.cleanups), "done") EXCEPT !.cleanups = Tail(@), !.last = 0]

\* a page with the target element, holding the page's own markup, and a
\* ComponentManager with or without fadeIn
MtInit ==
    /\ TMIdle /\ ctor = Constructed /\ click = NoClick /\ bm = BmIdle
    /\ cm = CmIdle /\ cl = ClIdle /\ sk = SkIdle
    /\ \E fadeIn \in BOOLEAN :
          mt = [MtIdle EXCEPT !.fadeIn = fadeIn,
                              !.el.kids = <<Leaf("old", 0)>>,
                              !.sibs = <<Self>>]

Mount ==
    /\ Len(mt.calls) < MaxMounts
    /\ \E target \in Targets, name \in Names, mode \in Modes :
          mt' = mount(mt, target, name, mode)
    /\ UNCHANGED <<tmVars, ctor, click, bm, cm, cl, sk>>

MountFetchDone ==
    /\ \E k \in 1..Len(mt.calls), ok \in BOOLEAN :
          /\ mt.calls[k].state = "fetching"
          /\ mt' = mounted(mt, k, ok)
    /\ UNCHANGED <<tmVars, ctor, click, bm, cm, cl, sk>>

FadeFrame ==
    /\ mt.rafs # <<>>
    /\ mt' = fadeFrame(mt)
    /\ UNCHANGED <<tmVars, ctor, click, bm, cm, cl, sk>>

FadeDone ==
    /\ mt.cleanups # <<>>
    /\ mt' = fadeDone(mt)
    /\ UNCHANGED <<tmVars, ctor, click, bm, cm, cl, sk>>

MtNext ==
    \/ Mount
    \/ MountFetchDone
    \/ FadeFrame
    \/ FadeDone

MtSpec == MtInit /\ [][MtNext]_vars

\* the page as the mount calls can change it
Dom(m) == [el |-> m.el, sibs |-> m.sibs, rafs |-> m.rafs,
           cleanups |-> m.cleanups]

\* C32: a mount call that rejects -- for a target that does not resolve, a
\* missing name, a response that is not ok, or an unknown mode -- has left
\* the DOM alone: neither the step that makes the call nor the step in which
\* it rejects replaces or inserts content, writes a fade style or schedules a
\* fade.
C32_RejectedMountLeavesDom ==
    [][\A k \in 1..Len(mt'.calls) :
          (mt'.last = k /\ mt'.calls[k].state # "fulfilled"
             /\ (k > Len(mt.calls) \/ mt.calls[k].state = "fetching"))
          => /\ Dom(mt') = Dom(mt)
             /\ mt'.calls[k].state = "rejected"
                  => mt'.calls[k].error \in {"target", "name", "http", "mode"}]_vars

\* with fadeIn, a first call has mounted into the element, and a second call
\* in replace mode has then been rejected for the response to its fetch
C32_Witness ==
    /\ mt.fadeIn /\ Len(mt.calls) = 2
    /\ mt.calls[1].state = "fulfilled" /\ mt.calls[1].mode = "append"
    /\ mt.calls[2].state = "rejected" /\ mt.calls[2].error = "http"
    /\ mt.calls[2].mode = "replace"
    /\ mt.last = 2
    /\ Len(mt.el.kids) = 2

\* C34: when the mount calls made are replace-mode calls on the same element
\* and all have been fulfilled, the element's content is that of the call
\* issued last, whatever the order in which their fetches completed.
C34_LastIssuedReplaceWins ==
    (/\ Len(mt.calls) >= 2
     /\ \A k \in 1..Len(mt.calls) :
           mt.calls[k].mode = "replace" /\ mt.calls[k].state = "fulfilled")
    => mt.el.kids = <<Leaf(mt.calls[Len(mt.calls)].name, Len(mt.calls))>>

====
